---- MODULE Spec2Model ----
(***************************************************************************)
(* ReAPI (src/src/index.ts): the request authorizer and the payload        *)
(* validators of class ReMongo, over an abstract document store.           *)
(***************************************************************************)
EXTENDS Integers, Sequences, FiniteSets, TLC

VARIABLES collections, db, now, req, res, origin, steps, fnIn, fnOut, pending

vars == <<collections, db, now, req, res, origin, steps, fnIn, fnOut, pending>>

(***************************************************************************)
(* JavaScript values.  Every value is a record of one shape, so that any   *)
(* two values can be compared: k is the kind, s the text of a string, n    *)
(* the number, o the entries (name, value) of an object or of an array     *)
(* (whose names are "0", "1", ...), in insertion order.                    *)
(***************************************************************************)
Str(x) == [k |-> "string", s |-> x, n |-> 0, o |-> <<>>]
Num(i) == [k |-> "number", s |-> "", n |-> i, o |-> <<>>]
Null == [k |-> "null", s |-> "", n |-> 0, o |-> <<>>]
Undef == [k |-> "undefined", s |-> "", n |-> 0, o |-> <<>>]
Ent(name, val) == [name |-> name, val |-> val]
Obj(entries) == [k |-> "object", s |-> "", n |-> 0, o |-> entries]
Arr(vals) == [k |-> "array", s |-> "", n |-> 0,
              o |-> [i \in 1..Len(vals) |-> Ent(ToString(i - 1), vals[i])]]

\* typeof v
TypeOf(v) ==
    CASE v.k = "string" -> "string"
      [] v.k = "number" -> "number"
      [] v.k = "undefined" -> "undefined"
      [] OTHER -> "object"

\* the property names `for (let f in v)` enumerates, in order
Keys(v) ==
    CASE v.k \in {"object", "array"} -> [i \in 1..Len(v.o) |-> v.o[i].name]
      [] v.k = "string" -> [i \in 1..Len(v.s) |-> ToString(i - 1)]
      [] OTHER -> <<>>

IsNullish(v) == v.k \in {"null", "undefined"}

\* `name in v` for an object or array v (a TypeError on anything else)
HasKey(v, name) == \E i \in 1..Len(v.o) : v.o[i].name = name

\* v[name] for a v that is not null or undefined (those throw a TypeError).
\* A character of a string is the string itself when it has one character
\* and otherwise a one-character string that is no other value of the model.
Get(v, name) ==
    CASE v.k \in {"object", "array"} ->
           IF HasKey(v, name)
           THEN v.o[CHOOSE i \in 1..Len(v.o) : v.o[i].name = name].val
           ELSE Undef
      [] v.k = "string" ->
           IF \E i \in 1..Len(v.s) : ToString(i - 1) = name
           THEN (IF Len(v.s) = 1 THEN v ELSE Str("#"))
           ELSE Undef
      [] OTHER -> Undef

\* obj[name] = val : replaces the value in place, or appends a new key
Put(v, name, val) ==
    IF HasKey(v, name)
    THEN Obj([i \in 1..Len(v.o) |->
                 IF v.o[i].name = name THEN Ent(name, val) ELSE v.o[i]])
    ELSE Obj(Append(v.o, Ent(name, val)))

(***************************************************************************)
(* Collection descriptions (CollectionFieldValue, lines 7-23).  A fields   *)
(* object is a sequence of (name, descriptor) in declaration order; the    *)
(* valueType of a nested object is "object" with the children in sub.      *)
(***************************************************************************)
Field(vt, vf, ut, sub, rq, un, ro, se, pi, pe) ==
    [valueType |-> vt, valueForm |-> vf, unionTypes |-> ut, sub |-> sub,
     required |-> rq, unique |-> un, readonly |-> ro, secret |-> se,
     preInsert |-> pi, preEdit |-> pe]

Scalar(vt, rq, un, ro, se) ==
    Field(vt, "single", <<>>, <<>>, rq, un, ro, se, "none", "none")

FEnt(name, d) == [name |-> name, d |-> d]

HasField(fields, name) == \E i \in 1..Len(fields) : fields[i].name = name

Desc(fields, name) ==
    fields[CHOOSE i \in 1..Len(fields) : fields[i].name = name].d

\* the id descriptor setCollection and setUserCollection inject
IdField == Scalar("string", FALSE, TRUE, TRUE, FALSE)

(***************************************************************************)
(* The document store (the mongodb Collection the handlers call).  A       *)
(* collection is the sequence of its documents in insertion order; a       *)
(* filter is an object of field = value clauses, all of which must match.  *)
(***************************************************************************)
\* {field: q} against a stored value: null matches a null or missing field,
\* an array field matches when it holds the value
MatchVal(dv, q) ==
    IF IsNullish(q) THEN IsNullish(dv)
    ELSE \/ dv = q
         \/ dv.k = "array" /\ \E i \in 1..Len(dv.o) : dv.o[i].val = q

Matches(doc, filter) ==
    \A i \in 1..Len(filter.o) :
        MatchVal(Get(doc, filter.o[i].name), filter.o[i].val)

\* collection.find(filter): the matching documents, in natural order
Find(coll, filter) == SelectSeq(coll, LAMBDA d : Matches(d, filter))

\* cursor.count()
Count(coll, filter) == Len(Find(coll, filter))

RECURSIVE SetAll(_, _, _)
SetAll(doc, set, i) ==
    IF i > Len(set.o) THEN doc
    ELSE SetAll(Put(doc, set.o[i].name, set.o[i].val), set, i + 1)

\* collection.updateOne(filter, {$set: set}): the first match is changed
UpdateOne(coll, filter, set) ==
    IF Count(coll, filter) = 0 \/ Len(set.o) = 0 THEN coll
    ELSE LET j == CHOOSE j \in 1..Len(coll) :
                     /\ Matches(coll[j], filter)
                     /\ \A h \in 1..(j - 1) : ~Matches(coll[h], filter)
         IN  [coll EXCEPT ![j] = SetAll(coll[j], set, 1)]

\* the index collection.deleteOne(filter) removes, 0 when nothing matches
DeleteIndex(coll, filter) ==
    IF Count(coll, filter) = 0 THEN 0
    ELSE CHOOSE j \in 1..Len(coll) :
             /\ Matches(coll[j], filter)
             /\ \A h \in 1..(j - 1) : ~Matches(coll[h], filter)

RemoveAt(seq, j) ==
    IF j = 0 THEN seq
    ELSE [i \in 1..(Len(seq) - 1) |-> IF i < j THEN seq[i] ELSE seq[i + 1]]

\* collection.deleteOne(filter)
DeleteOne(coll, filter) == RemoveAt(coll, DeleteIndex(coll, filter))

\* collection.insertOne(doc)
InsertOne(coll, doc) == Append(coll, doc)

(***************************************************************************)
(* The payload validators.  A result is "true", "false", or "throw" when   *)
(* the JavaScript raises a TypeError.                                      *)
(***************************************************************************)
Res(r, finds) == [res |-> r, finds |-> finds]

\* #queryFulfillsUniqueFields (lines 504-525), from the i-th key of query
\* on, with the lookups it issues
RECURSIVE UniqueFrom(_, _, _, _, _)
UniqueFrom(query, fields, coll, override, i) ==
    IF i > Len(Keys(query)) THEN Res("true", <<>>)
    ELSE
      LET field == Keys(query)[i] IN
      IF ~HasField(fields, field) THEN Res("false", <<>>)
      ELSE
        LET d == Desc(fields, field)
            queryDB == Obj(<<Ent(field, Get(query, field))>>)
        IN
        IF d.valueType = "object"
        THEN UniqueFrom(Get(query, field), d.sub, coll, override \/ d.unique, 1)
        ELSE IF d.unique \/ override
        THEN IF Count(coll, queryDB) # 0
             THEN Res("false", <<queryDB>>)
             ELSE LET rest == UniqueFrom(query, fields, coll, override, i + 1)
                  IN  Res(rest.res, <<queryDB>> \o rest.finds)
        ELSE UniqueFrom(query, fields, coll, override, i + 1)

queryFulfillsUniqueFields(query, fields, coll, override) ==
    UniqueFrom(query, fields, coll, override, 1)

\* the loops of #queryHasCorrectTypes over the entries of an array-form value
ElemsTyped(v, vt) ==
    \A i \in 1..Len(Keys(v)) : TypeOf(Get(v, Keys(v)[i])) = vt

\* membership in a union, buggy variant: every string is a member
InUnionAnyString(v, unionTypes) == v.k = "string"

InUnion(v, unionTypes) ==
    v.k = "string" /\ \E u \in 1..Len(unionTypes) : unionTypes[u] = v.s

ElemsInUnion(v, unionTypes) ==
    \A i \in 1..Len(Keys(v)) : InUnion(Get(v, Keys(v)[i]), unionTypes)

\* #queryHasCorrectTypes (lines 578-623), from the i-th key of query on
RECURSIVE TypesFrom(_, _, _)
TypesFrom(query, fields, i) ==
    IF i > Len(Keys(query)) THEN "true"
    ELSE
      LET field == Keys(query)[i] IN
      IF ~HasField(fields, field) THEN "throw"
      ELSE
        LET d == Desc(fields, field)
            v == Get(query, field)
            rest == TypesFrom(query, fields, i + 1)
        IN
        IF d.valueType \in {"string", "number"}
        THEN IF d.valueForm = "single"
             THEN (IF TypeOf(v) # d.valueType THEN "false" ELSE rest)
             ELSE (IF ~ElemsTyped(v, d.valueType) THEN "false" ELSE rest)
        ELSE IF d.valueType = "union"
        THEN IF d.valueForm = "single"
             THEN (IF ~InUnion(v, d.unionTypes) THEN "false" ELSE rest)
             ELSE (IF ~ElemsInUnion(v, d.unionTypes) THEN "false" ELSE rest)
        ELSE IF TypesFrom(v, d.sub, 1) = "throw" THEN "throw" ELSE rest

queryHasCorrectTypes(query, fields) == TypesFrom(query, fields, 1)

\* #queryHasRequiredFields (lines 559-571), from the i-th schema field on
RECURSIVE RequiredFrom(_, _, _, _)
RequiredFrom(query, fields, override, i) ==
    IF i > Len(fields) THEN "true"
    ELSE
      LET field == fields[i].name
          d == fields[i].d
      IN
      IF d.valueType = "object"
      THEN IF IsNullish(query) THEN "throw"
           ELSE RequiredFrom(Get(query, field), d.sub, d.required \/ override, 1)
      ELSE IF d.required \/ override
      THEN IF query.k \notin {"object", "array"} THEN "throw"
           ELSE IF ~HasKey(query, field) THEN "false"
           ELSE RequiredFrom(query, fields, override, i + 1)
      ELSE RequiredFrom(query, fields, override, i + 1)

queryHasRequiredFields(query, fields, override) ==
    RequiredFrom(query, fields, override, 1)

\* #queryContainsReadonlyFields (lines 631-641), from the i-th key of query
\* on.  Line 633 tests valueType against "string" three times, so a number
\* or union field is entered like a nested object, with the valueType
\* string as its fields: any key of the value then raises, and a value
\* without keys ends the whole check with false.
RECURSIVE ReadonlyFrom(_, _, _, _)
ReadonlyFrom(query, fields, override, i) ==
    IF i > Len(Keys(query)) THEN "false"
    ELSE
      LET field == Keys(query)[i] IN
      IF ~HasField(fields, field) THEN "throw"
      ELSE
        LET d == Desc(fields, field)
            v == Get(query, field)
        IN
        IF d.valueType = "object"
        THEN ReadonlyFrom(v, d.sub, d.readonly \/ override, 1)
        ELSE IF d.valueType # "string"
        THEN (IF Len(Keys(v)) = 0 THEN "false" ELSE "throw")
        ELSE IF d.readonly \/ override THEN "true"
        ELSE ReadonlyFrom(query, fields, override, i + 1)

queryContainsReadonlyFields(query, fields, override) ==
    ReadonlyFrom(query, fields, override, 1)

(***************************************************************************)
(* Time.  The clock counts minutes; token_disallow is stored as the text   *)
(* moment().format("DD-MM-YYYY|HH:mm") writes and read back with           *)
(* moment(text, "DD-MM-YYYY|HH:mm").                                       *)
(***************************************************************************)
token_disallow_minutes == 60 * 8

MaxTicks == 1

\* one tick of the model's clock: a minute more than the lifetime of a token
TickMinutes == token_disallow_minutes + 1

\* the clock after i ticks
Clock(i) == TickMinutes * (i + 1)

Pad2(n) == IF n < 10 THEN "0" \o ToString(n) ELSE ToString(n)

\* moment(t).format("DD-MM-YYYY|HH:mm"), for minute t of January 2021
Format(t) ==
    Pad2((t \div 1440) + 1) \o "-01-2021|" \o Pad2((t % 1440) \div 60)
        \o ":" \o Pad2(t % 60)

\* the minutes login and logout can write
TimesWritten ==
    UNION {{Clock(i) + token_disallow_minutes, Clock(i) - token_disallow_minutes} :
              i \in 0..MaxTicks}

\* moment(v, "DD-MM-YYYY|HH:mm").isBefore(moment()) at minute t: false for
\* a value that does not parse (an invalid moment), such as null
IsBefore(v, t) ==
    /\ v.k = "string"
    /\ \E w \in TimesWritten : Format(w) = v.s /\ w < t

(***************************************************************************)
(* Access expressions.  An access string is the sequence of its tokens:    *)
(* the sigils "@", "$", "&", the operator "=", and names.                  *)
(***************************************************************************)
\* accessString.split("=")
RECURSIVE SplitEq(_)
SplitEq(toks) ==
    IF \A i \in 1..Len(toks) : toks[i] # "="
    THEN <<toks>>
    ELSE LET j == CHOOSE j \in 1..Len(toks) :
                     toks[j] = "=" /\ \A h \in 1..(j - 1) : toks[h] # "="
         IN  <<SubSeq(toks, 1, j - 1)>> \o SplitEq(SubSeq(toks, j + 1, Len(toks)))

\* side.substr(0, 1) and side.substr(1)
Sigil(side) == IF Len(side) = 0 THEN "" ELSE side[1]
SideName(side) == IF Len(side) < 2 THEN "" ELSE side[2]

\* a number and a string compared without conversion (===)
StrictNumStr(n, s) == FALSE

\* a == b on a number and a string: the string is converted to a number
LooseNumStr(n, s) == IF s = "" THEN n = 0 ELSE ToString(n) = s

\* expressions[0] == expressions[1].  A resolved side is [v, ref]: two
\* objects are equal only when they are the same object, that is the same
\* field of the same source.
LooseEq(a, b) ==
    CASE IsNullish(a.v) \/ IsNullish(b.v) -> IsNullish(a.v) /\ IsNullish(b.v)
      [] a.v.k = "string" /\ b.v.k = "string" -> a.v.s = b.v.s
      [] a.v.k = "number" /\ b.v.k = "number" -> a.v.n = b.v.n
      [] a.v.k = "number" /\ b.v.k = "string" -> LooseNumStr(a.v.n, b.v.s)
      [] a.v.k = "string" /\ b.v.k = "number" -> LooseNumStr(b.v.n, a.v.s)
      [] OTHER -> a.ref = b.ref /\ a.ref # <<>>

Unset == [v |-> Undef, ref |-> <<>>]

\* the loop of #checkAccess over the sides (lines 718-733): "deny" when a
\* side cannot be resolved, else the resolved sides
RECURSIVE Resolve(_, _, _, _)
Resolve(sides, user, document, i) ==
    IF i > Len(sides) THEN [deny |-> FALSE, ex |-> <<>>]
    ELSE
      LET sg == Sigil(sides[i])
          nm == SideName(sides[i])
          rest == Resolve(sides, user, document, i + 1)
          this == CASE sg = "$" -> [v |-> Get(document, nm), ref |-> <<"$", nm>>]
                    [] sg = "&" -> [v |-> Get(user, nm), ref |-> <<"&", nm>>]
                    [] OTHER -> Unset
      IN
      IF (sg = "$" /\ document.k = "null") \/ (sg = "&" /\ IsNullish(user))
      THEN [deny |-> TRUE, ex |-> <<>>]
      ELSE [deny |-> rest.deny, ex |-> <<this>> \o rest.ex]

\* #checkAccess, buggy variant: a comparison holds as soon as both of its
\* sides can be resolved
checkAccessAnyValue(accessString, user, document) ==
    IF Sigil(accessString) = "@"
    THEN IF accessString = <<"@", "everyone">> THEN TRUE
         ELSE IF accessString = <<"@", "noone">> THEN FALSE
         ELSE IF accessString = <<"@", "everyuser">> /\ user.k # "null" THEN TRUE
         ELSE FALSE
    ELSE ~Resolve(SplitEq(accessString), user, document, 1).deny

\* #checkAccess, buggy variant: @everyuser does not look at the user
checkAccessAnyUser(accessString, user, document) ==
    IF Sigil(accessString) = "@"
    THEN accessString \in {<<"@", "everyone">>, <<"@", "everyuser">>}
    ELSE LET r == Resolve(SplitEq(accessString), user, document, 1)
             e1 == IF Len(r.ex) >= 1 THEN r.ex[1] ELSE Unset
             e2 == IF Len(r.ex) >= 2 THEN r.ex[2] ELSE Unset
         IN  IF r.deny THEN FALSE ELSE LooseEq(e1, e2)

\* #checkAccess (lines 704-735)
checkAccess(accessString, user, document) ==
    IF Sigil(accessString) = "@"
    THEN IF accessString = <<"@", "everyone">> THEN TRUE
         ELSE IF accessString = <<"@", "noone">> THEN FALSE
         ELSE IF accessString = <<"@", "everyuser">> /\ user.k # "null" THEN TRUE
         ELSE FALSE
    ELSE LET r == Resolve(SplitEq(accessString), user, document, 1)
             e1 == IF Len(r.ex) >= 1 THEN r.ex[1] ELSE Unset
             e2 == IF Len(r.ex) >= 2 THEN r.ex[2] ELSE Unset
         IN  IF r.deny THEN FALSE ELSE LooseEq(e1, e2)

(***************************************************************************)
(* Registration (setCollection, setUserCollection) and the registry.       *)
(***************************************************************************)
Access(rd, dl, ed, inf, ins) ==
    [read |-> rd, delete |-> dl, edit |-> ed, info |-> inf, insert |-> ins]

Description(name, fields, access) ==
    [name |-> name, fields |-> fields, access |-> access]

\* setCollection (lines 105-131) on a description without an id field
setCollection(desc) ==
    Description(desc.name, Append(desc.fields, FEnt("id", IdField)), desc.access)

\* setUserCollection, buggy variant: the access map of the description is
\* kept
setUserCollectionKeepAccess(desc) ==
    Description("Users",
        desc.fields \o
        << FEnt("username", Scalar("string", TRUE, TRUE, FALSE, FALSE)),
           FEnt("id", IdField),
           FEnt("password_hash",
                Field("string", "single", <<>>, <<>>, TRUE, FALSE, FALSE, TRUE,
                      "hash", "hash")),
           FEnt("token", Scalar("string", FALSE, FALSE, TRUE, TRUE)),
           FEnt("token_disallow", Scalar("string", FALSE, FALSE, TRUE, TRUE)) >>,
        desc.access)

\* setUserCollection (lines 136-213) on a description without an id field
setUserCollection(desc) ==
    Description("Users",
        desc.fields \o
        << FEnt("username", Scalar("string", TRUE, TRUE, FALSE, FALSE)),
           FEnt("id", IdField),
           FEnt("password_hash",
                Field("string", "single", <<>>, <<>>, TRUE, FALSE, FALSE, TRUE,
                      "hash", "hash")),
           FEnt("token", Scalar("string", FALSE, FALSE, TRUE, TRUE)),
           FEnt("token_disallow", Scalar("string", FALSE, FALSE, TRUE, TRUE)) >>,
        Access(<<"$", "id", "=", "&", "id">>, <<"$", "id", "=", "&", "id">>,
               <<"$", "id", "=", "&", "id">>, <<"@", "everyone">>,
               <<"@", "everyone">>))

\* the Tasks collection of the README (src/README.md lines 28-61)
TasksDescription ==
    Description("Tasks",
        << FEnt("owner_id",
                Field("string", "single", <<>>, <<>>, FALSE, FALSE, TRUE, FALSE,
                      "owner", "none")),
           FEnt("name", Scalar("string", TRUE, FALSE, FALSE, FALSE)),
           FEnt("coolness", Scalar("number", FALSE, FALSE, FALSE, FALSE)) >>,
        Access(<<"$", "owner_id", "=", "&", "id">>,
               <<"$", "owner_id", "=", "&", "id">>,
               <<"$", "owner_id", "=", "&", "id">>,
               <<"@", "everyuser">>, <<"@", "everyuser">>))

\* the description the README passes to setUserCollection (lines 63-73)
UsersDescription ==
    Description("", <<>>, Access(<<>>, <<>>, <<>>, <<>>, <<>>))

\* #collections after the README's registrations
Registry ==
    [Users |-> setUserCollection(UsersDescription),
     Tasks |-> setCollection(TasksDescription)]

CollectionNames == {"Users", "Tasks"}

CollectionOps == {"read", "edit", "delete", "insert", "info"}

\* #checkFieldsRecursively (lines 252-261) on one descriptor: "ok" or
\* "throw".  unionTypes <<>> stands for a literal set that is missing or
\* empty.  For a union whose unionTypes is set, line 256 goes on to
\* `for (let v in "union")`, which enumerates "0".."4", and line 258 calls
\* the function on the character "union"[v], whose type is undefined: line
\* 253 then reads undefined.valueType and raises a TypeError.
RECURSIVE checkFieldsRecursively(_)
checkFieldsRecursively(d) ==
    IF d.valueType \in {"string", "number"} THEN "ok"
    ELSE IF d.valueType = "union" THEN "throw"
    ELSE IF \A i \in 1..Len(d.sub) : checkFieldsRecursively(d.sub[i].d) = "ok"
         THEN "ok" ELSE "throw"

\* collectionName.endsWith("s"), on the names in use
EndsWithS(collectionName) == collectionName \in {"Users", "Tasks", "Things"}

\* a call of setCollection, buggy variant: the description is stored
\* before it is checked
setCollectionCallStoreFirst(regs, collectionName, desc) ==
    [thrown |-> \/ ~EndsWithS(collectionName)
                \/ HasField(desc.fields, "id")
                \/ desc.name # collectionName
                \/ \E i \in 1..Len(desc.fields) :
                       checkFieldsRecursively(desc.fields[i].d) = "throw",
     regs |-> [n \in DOMAIN regs \cup {collectionName} |->
                  IF n = collectionName THEN desc ELSE regs[n]]]

\* a call of setCollection(collectionName, desc) with a description that is
\* not null (lines 105-131): whether it raised, and #collections after it.
\* Every throw precedes the assignment of line 130.
setCollectionCall(regs, collectionName, desc) ==
    IF \/ ~EndsWithS(collectionName)
       \/ HasField(desc.fields, "id")
       \/ desc.name # collectionName
       \/ \E i \in 1..Len(desc.fields) :
              checkFieldsRecursively(desc.fields[i].d) = "throw"
    THEN [thrown |-> TRUE, regs |-> regs]
    ELSE [thrown |-> FALSE,
          regs |-> [n \in DOMAIN regs \cup {collectionName} |->
                       IF n = collectionName THEN setCollection(desc)
                       ELSE regs[n]]]

\* a call of setUserCollection(desc) with a description that is not null
\* (lines 136-213)
setUserCollectionCall(regs, desc) ==
    IF \/ HasField(desc.fields, "id")
       \/ \E i \in 1..Len(desc.fields) :
              checkFieldsRecursively(desc.fields[i].d) = "throw"
    THEN [thrown |-> TRUE, regs |-> regs]
    ELSE [thrown |-> FALSE,
          regs |-> [n \in DOMAIN regs \cup {"Users"} |->
                       IF n = "Users" THEN setUserCollection(desc)
                       ELSE regs[n]]]

(***************************************************************************)
(* Hooks and the external hashing service.                                 *)
(***************************************************************************)
\* bcrypt.hash(password, saltRounds); it raises on anything but a string
Hash(pw) == "$2b$" \o pw

\* bcrypt.compare(password, hash)
Compare(pw, h) == pw.k = "string" /\ h.k = "string" /\ h.s = Hash(pw.s)

\* one hook applied to a value, buggy variant: the hashing hook returns the
\* value it was given
HookedNoHash(hook, v, user) ==
    CASE hook = "owner" -> Get(user, "id")
      [] OTHER -> v

\* one hook applied to a value, buggy variant: the value is lost when the
\* hook is not defined or raises
HookedOrNull(hook, v, user) ==
    CASE hook = "hash" -> (IF v.k = "string" THEN Str(Hash(v.s)) ELSE Null)
      [] hook = "owner" -> Get(user, "id")
      [] OTHER -> Null

\* one hook applied to a value: the value is kept when the hook is not
\* defined or raises (the empty catch of lines 349-351 and 432-434).  The
\* README's owner hook returns user["id"]; user is a document or a Cursor.
\* "raise" is a hook that raises on every value.
Hooked(hook, v, user) ==
    CASE hook = "hash" -> (IF v.k = "string" THEN Str(Hash(v.s)) ELSE v)
      [] hook = "owner" -> Get(user, "id")
      [] hook = "raise" -> v
      [] OTHER -> v

RECURSIVE ApplyHooks(_, _, _, _, _)
ApplyHooks(data, fields, which, user, i) ==
    IF i > Len(data.o) THEN data
    ELSE LET field == data.o[i].name
             hook == IF ~HasField(fields, field) THEN "none"
                     ELSE IF which = "preInsert" THEN Desc(fields, field).preInsert
                     ELSE Desc(fields, field).preEdit
         IN  ApplyHooks(Put(data, field, Hooked(hook, data.o[i].val, user)),
                        fields, which, user, i + 1)

(***************************************************************************)
(* #prepareInsertData (lines 473-495).  cands are the strings              *)
(* #generateRandomString returns, in order: the loop probes each and stops *)
(* at the first that no document of the collection has as its id.          *)
(***************************************************************************)
IdFilter(id) == Obj(<<Ent("id", Str(id))>>)

\* the candidates a run of the loop can have consumed
IdRun(cands, coll) ==
    /\ Len(cands) >= 1
    /\ \A i \in 1..(Len(cands) - 1) : Count(coll, IdFilter(cands[i])) # 0
    /\ Count(coll, IdFilter(cands[Len(cands)])) = 0

\* #prepareInsertData, buggy variant: an id the data already holds is kept
prepareInsertDataKeepId(data, coll, cands) ==
    IF HasKey(data, "id")
    THEN [data |-> IF Get(data, "id").k = "null"
                   THEN Put(data, "id", Str(cands[Len(cands)])) ELSE data,
          probes |-> [i \in 1..Len(cands) |-> IdFilter(cands[i])]]
    ELSE [data |-> data, probes |-> <<>>]

\* #prepareInsertData, buggy variant: the first candidate is kept even when
\* the store reports it taken
prepareInsertDataFirst(data, coll, cands) ==
    IF HasKey(data, "id")
    THEN [data |-> Put(data, "id", Str(cands[1])),
          probes |-> [i \in 1..Len(cands) |-> IdFilter(cands[i])]]
    ELSE [data |-> data, probes |-> <<>>]

prepareInsertData(data, coll, cands) ==
    IF HasKey(data, "id")
    THEN [data |-> Put(data, "id", Str(cands[Len(cands)])),
          probes |-> [i \in 1..Len(cands) |-> IdFilter(cands[i])]]
    ELSE [data |-> data, probes |-> <<>>]

(***************************************************************************)
(* #handleRequest (lines 651-695).  body is req.body: username,            *)
(* user_token, query and document_data, each Undef when absent.  The       *)
(* result carries what the function returns (a boolean or the accessible   *)
(* documents), the statuses it sent and the store calls it made.           *)
(***************************************************************************)
Call(op, coll, why, filter) ==
    [op |-> op, coll |-> coll, why |-> why, filter |-> filter]

UserFilter(body) ==
    Obj(<<Ent("username", body.username), Ent("token", body.user_token)>>)

\* the local `user` of the endpoints (lines 327-330): the first matching
\* Users document, or the Cursor itself (an object without fields)
LocalUser(body, store) ==
    IF Count(store.Users, UserFilter(body)) # 0
    THEN Find(store.Users, UserFilter(body))[1]
    ELSE Obj(<<>>)

HR(kind, ok, docs, sent, calls) ==
    [kind |-> kind, ok |-> ok, docs |-> docs, sent |-> sent, calls |-> calls]

\* #handleRequest, buggy variant: the user is looked up by username alone
handleRequestByName(body, store, desc, accessType, t) ==
    LET filter == Obj(<<Ent("username", body.username)>>)
        found == Find(store.Users, filter)
        c0 == <<Call("find", "Users", "resolve", filter)>>
        access == desc.access[accessType]
    IN
    IF Len(found) = 0
    THEN IF desc.name # "Users"
         THEN HR("bool", FALSE, <<>>, <<403>>, c0)
         ELSE HR("bool", checkAccess(access, Null, Null), <<>>, <<>>, c0)
    ELSE
      LET user == found[1] IN
      IF IsBefore(Get(user, "token_disallow"), t)
      THEN HR("bool", FALSE, <<>>, <<403>>, c0)
      ELSE IF accessType \in {"read", "edit", "delete"}
      THEN IF body.query.k = "undefined"
           THEN HR("bool", FALSE, <<>>, <<400>>, c0)
           ELSE HR("docs", TRUE,
                   SelectSeq(Find(store[desc.name], body.query),
                             LAMBDA d : checkAccess(access, user, d)),
                   <<>>,
                   Append(c0, Call("find", desc.name, "fetch", body.query)))
      ELSE HR("bool", checkAccess(access, user, Null), <<>>, <<>>, c0)

handleRequest(body, store, desc, accessType, t) ==
    LET found == Find(store.Users, UserFilter(body))
        c0 == <<Call("find", "Users", "resolve", UserFilter(body))>>
        access == desc.access[accessType]
    IN
    IF Len(found) = 0
    THEN IF desc.name # "Users"
         THEN HR("bool", FALSE, <<>>, <<403>>, c0)
         ELSE HR("bool", checkAccess(access, Null, Null), <<>>, <<>>, c0)
    ELSE
      LET user == found[1] IN
      IF IsBefore(Get(user, "token_disallow"), t)
      THEN HR("bool", FALSE, <<>>, <<403>>, c0)
      ELSE IF accessType \in {"read", "edit", "delete"}
      THEN IF body.query.k = "undefined"
           THEN HR("bool", FALSE, <<>>, <<400>>, c0)
           ELSE HR("docs", TRUE,
                   SelectSeq(Find(store[desc.name], body.query),
                             LAMBDA d : checkAccess(access, user, d)),
                   <<>>,
                   Append(c0, Call("find", desc.name, "fetch", body.query)))
      ELSE HR("bool", checkAccess(access, user, Null), <<>>, <<>>, c0)

(***************************************************************************)
(* The endpoints of #createCollection (lines 291-466).  An outcome is the  *)
(* store after the request, the ghost origin of the tasks, and what the    *)
(* request did: the statuses passed to res.send in order (the client gets  *)
(* the first; a second send raises), the store calls in order, the checks  *)
(* run in order, whether the handler raised, and the data of a read.       *)
(***************************************************************************)
NoAuth == HR("none", FALSE, <<>>, <<>>, <<>>)

Done(sent, calls, trace, hr, thrown, data) ==
    [sent |-> sent, calls |-> calls, trace |-> trace, auth |-> hr,
     thrown |-> thrown, data |-> data]

Out(store, orig, r) == [db |-> store, origin |-> orig, res |-> r]

ById(doc) == Obj(<<Ent("id", Get(doc, "id"))>>)

Calls(op, coll, why, filters) ==
    [i \in 1..Len(filters) |-> Call(op, coll, why, filters[i])]

\* the endpoint's own send after #handleRequest returned a boolean: it
\* raises when #handleRequest has already sent
After(hr, status, calls, trace) ==
    Done(hr.sent \o <<status>>, calls, trace, hr, hr.sent # <<>>, <<>>)

\* query endpoint, lines 306-314: every secret field is set to null
RECURSIVE Redact(_, _, _)
Redact(doc, fields, i) ==
    IF i > Len(fields) THEN doc
    ELSE Redact(IF fields[i].d.secret THEN Put(doc, fields[i].name, Null) ELSE doc,
                fields, i + 1)

\* query endpoint, buggy variant: an empty authorized set is answered like
\* a non-empty one, with no data
QueryOutcomeEmptyOk(cn, body, store, orig, regs, t) ==
    LET desc == regs[cn]
        hr == handleRequest(body, store, desc, "read", t)
    IN
    IF hr.kind = "bool"
    THEN Out(store, orig, After(hr, 500, hr.calls, <<"access">>))
    ELSE Out(store, orig,
             Done(<<200>>, hr.calls, <<"access">>, hr, FALSE,
                  [i \in 1..Len(hr.docs) |-> Redact(hr.docs[i], desc.fields, 1)]))

\* query endpoint (lines 298-325)
QueryOutcome(cn, body, store, orig, regs, t) ==
    LET desc == regs[cn]
        hr == handleRequest(body, store, desc, "read", t)
    IN
    IF hr.kind = "bool"
    THEN Out(store, orig, After(hr, 500, hr.calls, <<"access">>))
    ELSE IF Len(hr.docs) > 0
    THEN Out(store, orig,
             Done(<<200>>, hr.calls, <<"access">>, hr, FALSE,
                  [i \in 1..Len(hr.docs) |-> Redact(hr.docs[i], desc.fields, 1)]))
    ELSE Out(store, orig, Done(<<403>>, hr.calls, <<"access">>, hr, FALSE, <<>>))

RECURSIVE UpdateEach(_, _, _, _)
UpdateEach(coll, docs, set, i) ==
    IF i > Len(docs) THEN coll
    ELSE UpdateEach(UpdateOne(coll, ById(docs[i]), set), docs, set, i + 1)

\* edit endpoint (lines 326-368)
EditOutcome(cn, body, cands, store, orig, regs, t) ==
    LET desc == regs[cn]
        coll == store[cn]
        data == body.document_data
        user == LocalUser(body, store)
        c0 == <<Call("find", "Users", "resolve", UserFilter(body))>>
        un == queryFulfillsUniqueFields(data, desc.fields, coll, FALSE)
        c1 == c0 \o Calls("find", cn, "unique", un.finds)
        ty == queryHasCorrectTypes(data, desc.fields)
        ro == queryContainsReadonlyFields(data, desc.fields, FALSE)
        prep == prepareInsertData(data, coll, cands)
        c2 == c1 \o Calls("find", cn, "id", prep.probes)
        insertData == ApplyHooks(prep.data, desc.fields, "preEdit", user, 1)
        hr == handleRequest(body, store, desc, "edit", t)
        c3 == c2 \o hr.calls
        tr == <<"unique", "types", "readonly", "id", "access">>
    IN
    IF data.k = "undefined"
    THEN Out(store, orig, Done(<<400>>, c0, <<>>, NoAuth, FALSE, <<>>))
    ELSE IF un.res = "false"
    THEN Out(store, orig, Done(<<400>>, c1, SubSeq(tr, 1, 1), NoAuth, FALSE, <<>>))
    ELSE IF ty # "true"
    THEN Out(store, orig,
             Done(IF ty = "false" THEN <<400>> ELSE <<>>, c1, SubSeq(tr, 1, 2),
                  NoAuth, ty = "throw", <<>>))
    ELSE IF ro # "false"
    THEN Out(store, orig,
             Done(IF ro = "true" THEN <<400>> ELSE <<>>, c1, SubSeq(tr, 1, 3),
                  NoAuth, ro = "throw", <<>>))
    ELSE IF hr.kind = "bool"
    THEN Out(store, orig, After(hr, 500, c3, tr))
    ELSE IF Len(hr.docs) > 0
    THEN Out([store EXCEPT ![cn] = UpdateEach(coll, hr.docs, insertData, 1)], orig,
             Done(<<200>>,
                  c3 \o Calls("updateOne", cn, "write",
                              [i \in 1..Len(hr.docs) |-> ById(hr.docs[i])]),
                  tr, hr, FALSE, <<>>))
    ELSE Out(store, orig, Done(<<403>>, c3, tr, hr, FALSE, <<>>))

\* whether the edit reaches #prepareInsertData with an id to generate
EditDrawsId(cn, body, store, regs) ==
    /\ body.document_data.k # "undefined"
    /\ queryFulfillsUniqueFields(body.document_data, regs[cn].fields, store[cn],
                                 FALSE).res = "true"
    /\ queryHasCorrectTypes(body.document_data, regs[cn].fields) = "true"
    /\ queryContainsReadonlyFields(body.document_data, regs[cn].fields, FALSE)
           = "false"
    /\ HasKey(body.document_data, "id")

RECURSIVE DeleteEach(_, _, _)
DeleteEach(coll, docs, i) ==
    IF i > Len(docs) THEN coll
    ELSE DeleteEach(DeleteOne(coll, ById(docs[i])), docs, i + 1)

\* the ghost origins after the same deletions
RECURSIVE DeleteEachOrigin(_, _, _, _)
DeleteEachOrigin(orig, coll, docs, i) ==
    IF i > Len(docs) THEN orig
    ELSE DeleteEachOrigin(RemoveAt(orig, DeleteIndex(coll, ById(docs[i]))),
                          DeleteOne(coll, ById(docs[i])), docs, i + 1)

\* delete endpoint, buggy variant: when nothing is authorized the documents
\* matching the filter are removed before the 403 is sent
DeleteOutcomeDeniedWrites(cn, body, store, orig, regs, t) ==
    LET desc == regs[cn]
        coll == store[cn]
        c0 == <<Call("find", "Users", "resolve", UserFilter(body))>>
        hr == handleRequest(body, store, desc, "delete", t)
        c1 == c0 \o hr.calls
        hit == Find(coll, body.query)
    IN
    IF hr.kind = "bool"
    THEN Out(store, orig, After(hr, 500, c1, <<"access">>))
    ELSE IF Len(hr.docs) > 0
    THEN Out([store EXCEPT ![cn] = DeleteEach(coll, hr.docs, 1)],
             IF cn = "Tasks" THEN DeleteEachOrigin(orig, coll, hr.docs, 1) ELSE orig,
             Done(<<200>>,
                  c1 \o Calls("deleteOne", cn, "write",
                              [i \in 1..Len(hr.docs) |-> ById(hr.docs[i])]),
                  <<"access">>, hr, FALSE, <<>>))
    ELSE Out([store EXCEPT ![cn] = DeleteEach(coll, hit, 1)],
             IF cn = "Tasks" THEN DeleteEachOrigin(orig, coll, hit, 1) ELSE orig,
             Done(<<403>>, c1, <<"access">>, hr, FALSE, <<>>))

\* delete endpoint (lines 369-394)
DeleteOutcome(cn, body, store, orig, regs, t) ==
    LET desc == regs[cn]
        coll == store[cn]
        c0 == <<Call("find", "Users", "resolve", UserFilter(body))>>
        hr == handleRequest(body, store, desc, "delete", t)
        c1 == c0 \o hr.calls
    IN
    IF hr.kind = "bool"
    THEN Out(store, orig, After(hr, 500, c1, <<"access">>))
    ELSE IF Len(hr.docs) > 0
    THEN Out([store EXCEPT ![cn] = DeleteEach(coll, hr.docs, 1)],
             IF cn = "Tasks" THEN DeleteEachOrigin(orig, coll, hr.docs, 1) ELSE orig,
             Done(<<200>>,
                  c1 \o Calls("deleteOne", cn, "write",
                              [i \in 1..Len(hr.docs) |-> ById(hr.docs[i])]),
                  <<"access">>, hr, FALSE, <<>>))
    ELSE Out(store, orig, Done(<<403>>, c1, <<"access">>, hr, FALSE, <<>>))

\* insert endpoint, lines 420-424: every absent schema field becomes null
RECURSIVE FillNull(_, _, _)
FillNull(data, fields, i) ==
    IF i > Len(fields) THEN data
    ELSE FillNull(IF HasKey(data, fields[i].name) THEN data
                  ELSE Put(data, fields[i].name, Null),
                  fields, i + 1)

\* insert endpoint, lines 403-438: the checks and the write that follow a
\* granted access decision hr
InsertChecks(cn, body, cands, store, orig, regs, hr) ==
    LET desc == regs[cn]
        coll == store[cn]
        data == body.document_data
        user == LocalUser(body, store)
        c1 == <<Call("find", "Users", "resolve", UserFilter(body))>> \o hr.calls
        rq == queryHasRequiredFields(data, desc.fields, FALSE)
        ty == queryHasCorrectTypes(data, desc.fields)
        ro == queryContainsReadonlyFields(data, desc.fields, FALSE)
        filled == FillNull(data, desc.fields, 1)
        un == queryFulfillsUniqueFields(filled, desc.fields, coll, FALSE)
        c2 == c1 \o Calls("find", cn, "unique", un.finds)
        prep == prepareInsertData(filled, coll, cands)
        c3 == c2 \o Calls("find", cn, "id", prep.probes)
        insertData == ApplyHooks(prep.data, desc.fields, "preInsert", user, 1)
        tr == <<"access", "required", "types", "readonly", "unique", "id">>
    IN
    IF data.k = "undefined"
    THEN Out(store, orig, Done(<<400>>, c1, SubSeq(tr, 1, 1), hr, FALSE, <<>>))
    ELSE IF rq # "true"
    THEN Out(store, orig,
             Done(IF rq = "false" THEN <<400>> ELSE <<>>, c1, SubSeq(tr, 1, 2),
                  hr, rq = "throw", <<>>))
    ELSE IF ty # "true"
    THEN Out(store, orig,
             Done(IF ty = "false" THEN <<400>> ELSE <<>>, c1, SubSeq(tr, 1, 3),
                  hr, ty = "throw", <<>>))
    ELSE IF ro # "false"
    THEN Out(store, orig,
             Done(IF ro = "true" THEN <<400>> ELSE <<>>, c1, SubSeq(tr, 1, 4),
                  hr, ro = "throw", <<>>))
    ELSE IF un.res = "false"
    THEN Out(store, orig, Done(<<400>>, c2, SubSeq(tr, 1, 5), hr, FALSE, <<>>))
    ELSE Out([store EXCEPT ![cn] = InsertOne(coll, insertData)],
             IF cn = "Tasks" THEN Append(orig, Get(user, "id")) ELSE orig,
             Done(<<200>>, Append(c3, Call("insertOne", cn, "write", insertData)),
                  tr, hr, FALSE, <<>>))

\* insert endpoint, buggy variant: a missing document_data is reported
\* before the access decision is looked at
InsertDataFirst(cn, body, cands, store, orig, regs, t) ==
    LET hr == handleRequest(body, store, regs[cn], "insert", t)
        c1 == <<Call("find", "Users", "resolve", UserFilter(body))>> \o hr.calls
    IN
    IF body.document_data.k = "undefined"
    THEN Out(store, orig, Done(<<400>>, c1, <<"access">>, hr, FALSE, <<>>))
    ELSE IF ~hr.ok
    THEN Out(store, orig, After(hr, 403, c1, <<"access">>))
    ELSE InsertChecks(cn, body, cands, store, orig, regs, hr)

\* insert endpoint (lines 395-446)
InsertOutcome(cn, body, cands, store, orig, regs, t) ==
    LET hr == handleRequest(body, store, regs[cn], "insert", t)
        c1 == <<Call("find", "Users", "resolve", UserFilter(body))>> \o hr.calls
    IN
    IF ~hr.ok
    THEN Out(store, orig, After(hr, 403, c1, <<"access">>))
    ELSE InsertChecks(cn, body, cands, store, orig, regs, hr)

\* whether the insert reaches #prepareInsertData (the id key is always
\* there: every schema has an id field and the absent keys were filled)
InsertDrawsId(cn, body, store, regs, t) ==
    /\ handleRequest(body, store, regs[cn], "insert", t).ok
    /\ body.document_data.k # "undefined"
    /\ queryHasRequiredFields(body.document_data, regs[cn].fields, FALSE) = "true"
    /\ queryHasCorrectTypes(body.document_data, regs[cn].fields) = "true"
    /\ queryContainsReadonlyFields(body.document_data, regs[cn].fields, FALSE)
           = "false"
    /\ queryFulfillsUniqueFields(FillNull(body.document_data, regs[cn].fields, 1),
                                 regs[cn].fields, store[cn], FALSE).res = "true"

\* info endpoint (lines 447-465)
InfoOutcome(cn, body, store, orig, regs, t) ==
    LET hr == handleRequest(body, store, regs[cn], "info", t) IN
    IF hr.ok
    THEN Out(store, orig, Done(<<200>>, hr.calls, <<"access">>, hr, FALSE, <<>>))
    ELSE Out(store, orig, After(hr, 403, hr.calls, <<"access">>))

(***************************************************************************)
(* The session endpoints of create (lines 752-808).                        *)
(***************************************************************************)
NameFilter(body) == Obj(<<Ent("username", body.username)>>)

\* /login (lines 752-779); token is what #generateRandomString returns
LoginOutcome(body, token, store, orig, t) ==
    LET c0 == <<Call("findOne", "Users", "login", NameFilter(body))>>
        found == Find(store.Users, NameFilter(body))
        set == Obj(<<Ent("token", Str(token)),
                     Ent("token_disallow",
                         Str(Format(t + token_disallow_minutes)))>>)
    IN
    IF body.username.k = "undefined" \/ body.password.k = "undefined"
    THEN Out(store, orig, Done(<<400>>, <<>>, <<>>, NoAuth, FALSE, <<>>))
    ELSE IF Len(found) = 0
    THEN Out(store, orig, Done(<<400>>, c0, <<>>, NoAuth, FALSE, <<>>))
    ELSE IF ~Compare(body.password, Get(found[1], "password_hash"))
    THEN Out(store, orig, Done(<<403>>, c0, <<>>, NoAuth, FALSE, <<>>))
    ELSE Out([store EXCEPT !.Users = UpdateOne(@, NameFilter(body), set)], orig,
             Done(<<200>>, Append(c0, Call("updateOne", "Users", "write",
                                           NameFilter(body))),
                  <<>>, NoAuth, FALSE, <<Str(token)>>))

\* /logout (lines 780-796); the body carries username and token
LogoutOutcome(body, store, orig, t) ==
    LET c0 == <<Call("findOne", "Users", "logout", UserFilter(body))>>
        found == Find(store.Users, UserFilter(body))
        set == Obj(<<Ent("token", Str("")),
                     Ent("token_disallow",
                         Str(Format(t - token_disallow_minutes)))>>)
    IN
    IF body.username.k = "undefined" \/ body.user_token.k = "undefined"
    THEN Out(store, orig, Done(<<400>>, <<>>, <<>>, NoAuth, FALSE, <<>>))
    ELSE IF Len(found) = 0
    THEN Out(store, orig, Done(<<400>>, c0, <<>>, NoAuth, FALSE, <<>>))
    ELSE Out([store EXCEPT !.Users = UpdateOne(@, NameFilter(body), set)], orig,
             Done(<<200>>, Append(c0, Call("updateOne", "Users", "write",
                                           NameFilter(body))),
                  <<>>, NoAuth, FALSE, <<>>))

\* /verifyToken (lines 797-808)
VerifyOutcome(body, store, orig) ==
    LET c0 == <<Call("findOne", "Users", "verify", UserFilter(body))>>
        found == Find(store.Users, UserFilter(body))
    IN
    IF body.username.k = "undefined" \/ body.user_token.k = "undefined"
    THEN Out(store, orig, Done(<<400>>, <<>>, <<>>, NoAuth, FALSE, <<>>))
    ELSE IF Len(found) = 0
    THEN Out(store, orig, Done(<<400>>, c0, <<>>, NoAuth, FALSE, <<>>))
    ELSE Out(store, orig, Done(<<200>>, c0, <<>>, NoAuth, FALSE, <<>>))

(***************************************************************************)
(* The requests the model sends.                                           *)
(***************************************************************************)
MaxDocs == 2
MaxSteps == 5

Usernames == {"alice", "bob"}
TokenPool == {"k1"}

\* the strings #generateRandomString returns for ids within one request, in
\* order; a request consumes a prefix of them
IdStream == <<"i1", "i2", "i3">>
IdPool == {IdStream[i] : i \in 1..Len(IdStream)}
CandRuns == {SubSeq(IdStream, 1, n) : n \in 1..Len(IdStream)}

\* the run of id candidates an edit or insert consumes: none when it does
\* not reach #prepareInsertData with an id key
Runs(draws, coll) ==
    IF draws THEN {c \in CandRuns : IdRun(c, coll)} ELSE {<<>>}

Body(u, k, q, d, pw) ==
    [username |-> u, user_token |-> k, query |-> q, document_data |-> d,
     password |-> pw]

\* the credentials of a request: a username with a token or with a null token
Credentials ==
    {<<Str(u), k>> : u \in Usernames, k \in {Str(x) : x \in TokenPool} \cup {Null}}

Filters == {Undef, Obj(<<>>), Obj(<<Ent("id", Str("i1"))>>)}

TaskPayloads ==
    {Undef,
     Obj(<<Ent("name", Str("t"))>>),
     Obj(<<Ent("coolness", Num(1))>>),
     Obj(<<Ent("name", Num(1))>>),
     Obj(<<Ent("name", Str("t")), Ent("id", Str("i3"))>>)}
    \cup {Obj(<<Ent("coolness", Num(1)), Ent("owner_id", Str(i))>>) : i \in {"i1", "i2"}}
    \cup {Obj(<<Ent("coolness", Num(1)), Ent("id", Str(i))>>) : i \in {"i1", "i3"}}

UserPayloads ==
    {Undef,
     Obj(<<Ent("password_hash", Str("pw"))>>),
     Obj(<<Ent("username", Str("alice")), Ent("password_hash", Str("pw")),
           Ent("token", Str("k1"))>>)}
    \cup {Obj(<<Ent("username", Str(u)), Ent("password_hash", Str("pw"))>>) :
             u \in Usernames}
    \cup {Obj(<<Ent("username", Str(u))>>) : u \in Usernames}

Payloads(cn) == IF cn = "Users" THEN UserPayloads ELSE TaskPayloads

Request(op, cn, body) == [op |-> op, coll |-> cn, body |-> body]

NoRequest == Request("none", "none", Body(Undef, Undef, Undef, Undef, Undef))

Idle == Done(<<>>, <<>>, <<>>, NoAuth, FALSE, <<>>)

(***************************************************************************)
(* The inputs of the validators and of the access evaluator taken alone.   *)
(***************************************************************************)
MaxFields == 2

FnIn(fn, query, fields, coll, access, user, document) ==
    [fn |-> fn, query |-> query, fields |-> fields, coll |-> coll,
     access |-> access, user |-> user, document |-> document]

FnNone == FnIn("none", Null, <<>>, <<>>, <<>>, Null, Null)

FnOut(fn, out, finds) == [fn |-> fn, out |-> out, finds |-> finds]

FnIdle == FnOut("none", "none", <<>>)

\* a schema with a field of every shape: number, union, nested object,
\* readonly nested object, unique string, plain string, and the injected id
FnDescription ==
    setCollection(Description("Things",
        << FEnt("count", Scalar("number", FALSE, FALSE, FALSE, FALSE)),
           FEnt("kind", Field("union", "single", <<"a", "b">>, <<>>,
                              FALSE, FALSE, FALSE, FALSE, "none", "none")),
           FEnt("meta", Field("object", "single", <<>>,
                              <<FEnt("tag", Scalar("string", FALSE, FALSE, FALSE, FALSE))>>,
                              FALSE, FALSE, FALSE, FALSE, "none", "none")),
           FEnt("locked", Field("object", "single", <<>>,
                                <<FEnt("pin", Scalar("string", FALSE, FALSE, FALSE, FALSE))>>,
                                FALSE, FALSE, TRUE, FALSE, "none", "none")),
           FEnt("code", Scalar("string", FALSE, TRUE, FALSE, FALSE)),
           FEnt("note", Scalar("string", FALSE, FALSE, FALSE, FALSE)) >>,
        Access(<<"@", "everyone">>, <<"@", "everyone">>, <<"@", "everyone">>,
               <<"@", "everyone">>, <<"@", "everyone">>)))

FnEntries ==
    {Ent("count", Num(1)), Ent("kind", Str("a")),
     Ent("meta", Obj(<<Ent("tag", Str("x"))>>)), Ent("meta", Obj(<<>>)),
     Ent("locked", Obj(<<Ent("pin", Str("x"))>>)),
     Ent("code", Str("x")), Ent("code", Str("y")),
     Ent("note", Str("x")), Ent("id", Str("x"))}

\* the payloads of at most MaxFields fields, in every order
FnPayloads ==
    {Obj(sq) : sq \in {t \in UNION {[1..n -> FnEntries] : n \in 1..MaxFields} :
                          \A i, j \in 1..Len(t) : i # j => t[i].name # t[j].name}}

FnDoc(code, tag, id) ==
    Obj(<<Ent("count", Num(1)), Ent("kind", Str("a")),
          Ent("meta", Obj(<<Ent("tag", Str(tag))>>)),
          Ent("locked", Null), Ent("code", Str(code)), Ent("note", Str("x")),
          Ent("id", Str(id))>>)

FnStores == {<<>>, <<FnDoc("x", "x", "x")>>, <<FnDoc("y", "z", "w")>>}

FnAccess ==
    {<<"@", "everyone">>, <<"@", "noone">>, <<"@", "everyuser">>,
     <<"@", "everyone-authenticated">>, <<"$", "owner_id", "=", "&", "id">>,
     <<"&", "id", "=", "$", "owner_id">>, <<"owner_id", "=", "id">>}

\* the ids a user or a document can hold: strings, a number, the text of
\* that number and of another one
FnIds == {Str("u1"), Str("u2"), Str("1"), Str("2"), Num(1)}

FnUsers == {Null, Obj(<<>>)} \cup {Obj(<<Ent("id", i)>>) : i \in FnIds}

FnDocuments == {Null, Obj(<<>>)} \cup {Obj(<<Ent("owner_id", i)>>) : i \in FnIds}

\* the payloads of at most MaxFields of the given entries, in every order
PayloadsOf(entries) ==
    {Obj(sq) : sq \in {t \in UNION {[1..n -> entries] : n \in 1..MaxFields} :
                          \A i, j \in 1..Len(t) : i # j => t[i].name # t[j].name}}

\* a schema with a field of every type and form: string, number, union,
\* array of union, array of number, nested object, array of objects; the
\* entries below also name a field, ghost, that it does not declare
TypeFields ==
    << FEnt("title", Scalar("string", FALSE, FALSE, FALSE, FALSE)),
       FEnt("count", Scalar("number", FALSE, FALSE, FALSE, FALSE)),
       FEnt("kind", Field("union", "single", <<"a", "b">>, <<>>,
                          FALSE, FALSE, FALSE, FALSE, "none", "none")),
       FEnt("kinds", Field("union", "array", <<"a", "b">>, <<>>,
                           FALSE, FALSE, FALSE, FALSE, "none", "none")),
       FEnt("counts", Field("number", "array", <<>>, <<>>,
                            FALSE, FALSE, FALSE, FALSE, "none", "none")),
       FEnt("meta", Field("object", "single", <<>>,
                          <<FEnt("tag", Scalar("string", FALSE, FALSE, FALSE, FALSE))>>,
                          FALSE, FALSE, FALSE, FALSE, "none", "none")),
       FEnt("items", Field("object", "array", <<>>,
                           <<FEnt("tag", Scalar("string", FALSE, FALSE, FALSE, FALSE))>>,
                           FALSE, FALSE, FALSE, FALSE, "none", "none")) >>

TypeEntries ==
    {Ent("title", Str("x")), Ent("title", Num(1)),
     Ent("count", Num(1)), Ent("count", Str("1")),
     Ent("kind", Str("a")), Ent("kind", Str("c")), Ent("kind", Num(1)),
     Ent("kinds", Arr(<<Str("a"), Str("b")>>)), Ent("kinds", Arr(<<Str("a"), Str("c")>>)),
     Ent("kinds", Arr(<<>>)), Ent("kinds", Str("a")),
     Ent("counts", Arr(<<Num(1), Num(2)>>)), Ent("counts", Arr(<<Num(1), Str("x")>>)),
     Ent("counts", Num(1)),
     Ent("meta", Obj(<<Ent("tag", Str("x"))>>)), Ent("meta", Obj(<<Ent("tag", Num(1))>>)),
     Ent("items", Arr(<<Obj(<<Ent("tag", Str("x"))>>)>>)),
     Ent("items", Arr(<<Obj(<<Ent("tag", Num(1))>>)>>)),
     Ent("ghost", Str("x")), Ent("meta", Obj(<<Ent("ghost", Str("x"))>>))}

\* a schema with a required nested object followed by a required and an
\* optional field
RequiredFields ==
    << FEnt("meta", Field("object", "single", <<>>,
                          <<FEnt("tag", Scalar("string", FALSE, FALSE, FALSE, FALSE))>>,
                          TRUE, FALSE, FALSE, FALSE, "none", "none")),
       FEnt("code", Scalar("string", TRUE, FALSE, FALSE, FALSE)),
       FEnt("note", Scalar("string", FALSE, FALSE, FALSE, FALSE)) >>

RequiredEntries ==
    {Ent("meta", Obj(<<Ent("tag", Str("x"))>>)), Ent("meta", Obj(<<>>)),
     Ent("code", Str("x")), Ent("note", Str("x"))}

\* a schema whose nested object is unique while its child is not, with a
\* plain field after it
ParentFields ==
    << FEnt("box", Field("object", "single", <<>>,
                         <<FEnt("tag", Scalar("string", FALSE, FALSE, FALSE, FALSE))>>,
                         FALSE, TRUE, FALSE, FALSE, "none", "none")),
       FEnt("note", Scalar("string", FALSE, FALSE, FALSE, FALSE)),
       FEnt("id", IdField) >>

ParentEntries ==
    {Ent("box", Obj(<<Ent("tag", Str("x"))>>)), Ent("box", Obj(<<Ent("tag", Str("y"))>>)),
     Ent("note", Str("x"))}

ParentDoc(tag, id) ==
    Obj(<<Ent("box", Obj(<<Ent("tag", Str(tag))>>)), Ent("note", Str("x")),
          Ent("id", Str(id))>>)

ParentStores == {<<>>, <<ParentDoc("x", "d1")>>, <<ParentDoc("x", "d1"), ParentDoc("z", "d2")>>}

\* the fields of the descriptions put to registration: plain, with a union
\* that has its literals or lacks them, at top level or in a nested object,
\* and with a declared id
RegFields ==
    LET plain == FEnt("name", Scalar("string", TRUE, FALSE, FALSE, FALSE))
        union(ut) == Field("union", "single", ut, <<>>,
                           FALSE, FALSE, FALSE, FALSE, "none", "none")
        nest(sub) == Field("object", "single", <<>>, sub,
                           FALSE, FALSE, FALSE, FALSE, "none", "none")
    IN  { <<>>, <<plain>>,
          <<plain, FEnt("meta", nest(<<plain>>))>>,
          <<plain, FEnt("kind", union(<<"a", "b">>))>>,
          <<plain, FEnt("kind", union(<<>>))>>,
          <<plain, FEnt("meta", nest(<<FEnt("kind", union(<<"a", "b">>))>>))>>,
          <<plain, FEnt("meta", nest(<<FEnt("kind", union(<<>>))>>))>>,
          <<plain, FEnt("id", IdField)>>,
          <<FEnt("id", Scalar("number", FALSE, FALSE, FALSE, FALSE)), plain>> }

\* the access strings put to registration: two of the documented shapes,
\* then one without "=", one with two "=", one with an unknown sigil, one
\* with no sigil and one with an unknown sentinel
RegAccess ==
    { <<"@", "everyuser">>, <<"$", "owner_id", "=", "&", "id">>,
      <<"$", "owner_id">>,
      <<"$", "owner_id", "=", "&", "id", "=", "&", "id">>,
      <<"#", "owner_id", "=", "&", "id">>,
      <<"owner_id", "=", "&", "id">>,
      <<"@", "nobody">> }

\* the fields of the README's Tasks with one more field, stamp, whose
\* pre-insert and pre-edit hooks raise, as setCollection registers them
HookFields ==
    setCollection(Description("Tasks",
        TasksDescription.fields \o
        <<FEnt("stamp", Field("string", "single", <<>>, <<>>, FALSE, FALSE, FALSE,
                              FALSE, "raise", "raise"))>>,
        TasksDescription.access)).fields

\* the document of alice after her insert into Users and her login
EndUser ==
    Obj(<<Ent("username", Str("alice")), Ent("password_hash", Str(Hash("pw"))),
          Ent("id", Str("i1")), Ent("token", Str("k1")),
          Ent("token_disallow", Str(Format(Clock(0) + token_disallow_minutes)))>>)

\* a task of alice as her insert of {name: "t"} leaves it
EndDoc(id) ==
    Obj(<<Ent("name", Str("t")), Ent("owner_id", Str("i1")), Ent("coolness", Null),
          Ent("stamp", Null), Ent("id", Str(id))>>)

EndStores == {<<>>, <<EndDoc("i1")>>, <<EndDoc("i1"), EndDoc("i2")>>}

\* Tasks after four requests of alice: she inserts {name: "a"} and
\* {name: "b"}; her edit of both with {coolness: 1, id: "zz"} gets past the
\* readonly check and gives both the one generated id; her edit of the
\* second, with the filter {name: "b"} and {coolness: 1, owner_id: "i2"},
\* reaches the first one, which updateOne finds first under the shared id
SharedIdStore ==
    LET task(n, o) ==
            Obj(<<Ent("name", Str(n)), Ent("owner_id", Str(o)),
                  Ent("coolness", Num(1)), Ent("stamp", Null), Ent("id", Str("i3"))>>)
    IN  <<task("a", "i2"), task("b", "i1")>>

\* the payloads put to the insert and edit endpoints taken alone
EndPayloads ==
    {Undef,
     Obj(<<Ent("name", Str("t"))>>),
     Obj(<<Ent("name", Num(1))>>),
     Obj(<<Ent("coolness", Num(1))>>),
     Obj(<<Ent("stamp", Str("s")), Ent("name", Str("t"))>>),
     Obj(<<Ent("name", Str("t")), Ent("stamp", Str("s"))>>),
     Obj(<<Ent("coolness", Num(1)), Ent("stamp", Str("s"))>>),
     Obj(<<Ent("name", Str("t")), Ent("id", Str("zz"))>>),
     Obj(<<Ent("coolness", Num(1)), Ent("name", Str("t")), Ent("id", Str("zz"))>>),
     Obj(<<Ent("coolness", Num(1)), Ent("name", Str("t")), Ent("id", Str("i1"))>>),
     Obj(<<Ent("ghost", Str("x"))>>),
     Obj(<<Ent("name", Str("t")), Ent("ghost", Str("x"))>>)}

\* the route of a collection endpoint, and the JSON body of a request
Route(cn, op) == Obj(<<Ent("collection", Str(cn)), Ent("op", Str(op))>>)

Json(u, k, q, d) ==
    Obj(<<Ent("username", u), Ent("user_token", k), Ent("query", q),
          Ent("document_data", d)>>)

\* requests to the collection endpoints taken alone.  An input is the
\* route, the JSON body, the registered fields of the collection of the
\* route (the other collection is the README's), the one document of Users
\* (or null for none), and the documents of Tasks.
\*  - every endpoint of both collections with alice's token k1, while she
\*    is logged in with it, after her logout, and after her next login
\*    drew the token k2;
\*  - a read of a task that has a secret field and a nested object with a
\*    secret child, as alice's insert stored it;
\*  - inserts into and edits of Users registered with a number field, age,
\*    with payloads that carry token or token_disallow.
FnRequests ==
    LET \* alice after her logout, and after her next login
        out == Put(Put(EndUser, "token", Str("")), "token_disallow",
                   Str(Format(Clock(0) - token_disallow_minutes)))
        again == Put(EndUser, "token", Str("k2"))
        data(cn) == IF cn = "Tasks" THEN Obj(<<Ent("name", Str("t"))>>)
                    ELSE Obj(<<Ent("username", Str("bob")),
                               Ent("password_hash", Str("pw"))>>)
        flds(cn) == IF cn = "Tasks" THEN HookFields ELSE Registry.Users.fields
        secret == setCollection(Description("Tasks",
                     TasksDescription.fields \o
                     << FEnt("key", Scalar("string", FALSE, FALSE, FALSE, TRUE)),
                        FEnt("meta", Field("object", "single", <<>>,
                               <<FEnt("pin", Scalar("string", FALSE, FALSE, FALSE,
                                                    TRUE))>>,
                               FALSE, FALSE, FALSE, FALSE, "none", "none")) >>,
                     TasksDescription.access))
        \* Tasks after alice's insert of
        \* {name: "t", key: "s3", meta: {pin: "p1"}}
        kept == <<Obj(<<Ent("name", Str("t")), Ent("key", Str("s3")),
                        Ent("meta", Obj(<<Ent("pin", Str("p1"))>>)),
                        Ent("owner_id", Str("i1")), Ent("coolness", Null),
                        Ent("id", Str("i1"))>>)>>
        aged == setUserCollection(Description("",
                    <<FEnt("age", Scalar("number", FALSE, FALSE, FALSE, FALSE))>>,
                    UsersDescription.access))
        \* alice after her insert into these Users and her login
        old == Obj(<<Ent("username", Str("alice")),
                     Ent("password_hash", Str(Hash("pw"))), Ent("age", Null),
                     Ent("id", Str("i1")), Ent("token", Str("k1")),
                     Ent("token_disallow",
                         Str(Format(Clock(0) + token_disallow_minutes)))>>)
        sets == {<<Ent("token", Str("x"))>>,
                 <<Ent("token_disallow", Str(Format(Clock(MaxTicks + 1))))>>}
        eve == <<Ent("username", Str("eve")), Ent("password_hash", Str("pw"))>>
        age == <<Ent("age", Num(1))>>
    IN
    {FnIn("request", Json(Str("alice"), Str("k1"), Obj(<<>>), data(cn)), flds(cn),
          <<EndDoc("i1")>>, <<>>, u, Route(cn, op)) :
        cn \in CollectionNames, op \in CollectionOps, u \in {EndUser, out, again}}
    \cup {FnIn("request", Json(Str("alice"), Str("k1"), Obj(<<>>), Undef),
               secret.fields, kept, <<>>, EndUser, Route("Tasks", "read"))}
    \cup {FnIn("request", Json(Undef, Undef, Undef, Obj(d)), aged.fields, <<>>, <<>>,
               Null, Route("Users", "insert")) :
             d \in {eve \o x : x \in sets} \cup {age \o eve \o x : x \in sets}
                   \cup {eve, age \o eve}}
    \cup {FnIn("request", Json(Str("alice"), Str("k1"), Obj(<<>>), Obj(d)),
               aged.fields, <<>>, <<>>, old, Route("Users", "edit")) :
             d \in sets \cup {age \o x : x \in sets} \cup {age}}

\* the fields of the README's Tasks with one more field, code, which is
\* unique and not required, as setCollection registers them
CodedFields ==
    setCollection(Description("Tasks",
        TasksDescription.fields \o
        <<FEnt("code", Scalar("string", FALSE, TRUE, FALSE, FALSE))>>,
        TasksDescription.access)).fields

FnInputs ==
    FnRequests
    \cup
    (LET \* Tasks after alice's insert of {name: "t"}
         first == <<Obj(<<Ent("name", Str("t")), Ent("owner_id", Str("i1")),
                          Ent("coolness", Null), Ent("code", Null),
                          Ent("id", Str("i1"))>>)>>
     IN  {FnIn("insert", Obj(q), CodedFields, c, <<>>, EndUser, Null) :
             q \in {<<Ent("name", Str("t"))>>,
                    <<Ent("name", Str("t")), Ent("code", Str("c1"))>>},
             c \in {<<>>, first}})
    \cup
    {FnIn(fn, q, HookFields, c, <<>>, EndUser, Null) :
        fn \in {"insert", "edit"}, q \in EndPayloads, c \in EndStores}
    \cup {FnIn("edit", q, HookFields, SharedIdStore, <<>>, EndUser, Null) :
             q \in EndPayloads}
    \cup {FnIn("insert", q, setCollection(Description("Tasks", RequiredFields,
                                                      TasksDescription.access)).fields,
               <<>>, <<>>, EndUser, Null) :
             q \in PayloadsOf(RequiredEntries)}
    \cup {FnIn("setCollection", Str(n), f, <<>>, a, Null, Null) :
        n \in {"Tasks", "Things", "Task"}, f \in RegFields, a \in RegAccess}
    \cup {FnIn("setUserCollection", Null, f, <<>>, a, Null, Null) :
             f \in RegFields, a \in RegAccess}
    \cup
    {FnIn("unique", q, FnDescription.fields, c, <<>>, Null, Null) :
        q \in FnPayloads, c \in FnStores}
    \cup {FnIn("unique", q, ParentFields, c, <<>>, Null, Null) :
             q \in PayloadsOf(ParentEntries), c \in ParentStores}
    \cup {FnIn("types", q, TypeFields, <<>>, <<>>, Null, Null) :
             q \in PayloadsOf(TypeEntries)}
    \cup {FnIn("required", q, RequiredFields, <<>>, <<>>, Null, Null) :
             q \in PayloadsOf(RequiredEntries)}
    \cup {FnIn("readonly", q, FnDescription.fields, <<>>, <<>>, Null, Null) :
             q \in FnPayloads}
    \cup {FnIn("access", Null, <<>>, <<>>, a, u, d) :
             a \in FnAccess, u \in FnUsers, d \in FnDocuments}

FnInit ==
    /\ collections = Registry
    /\ db = [Users |-> <<>>, Tasks |-> <<>>]
    /\ now = Clock(0)
    /\ req = Request("none", "none", Body(Undef, Undef, Undef, Undef, Undef))
    /\ res = Done(<<>>, <<>>, <<>>, NoAuth, FALSE, <<>>)
    /\ origin = <<>>
    /\ steps = 0
    /\ fnIn \in FnInputs
    /\ fnOut = FnIdle
    /\ pending = <<>>

Apply(fn, out) ==
    /\ fnIn.fn = fn
    /\ fnOut = FnIdle
    /\ fnOut' = out
    /\ UNCHANGED <<collections, db, now, req, res, origin, steps, fnIn, pending>>

ApplyUnique ==
    LET r == queryFulfillsUniqueFields(fnIn.query, fnIn.fields, fnIn.coll, FALSE)
    IN  Apply("unique", FnOut("unique", r.res, r.finds))

ApplyReadonly ==
    Apply("readonly",
          FnOut("readonly",
                queryContainsReadonlyFields(fnIn.query, fnIn.fields, FALSE), <<>>))

ApplyTypes ==
    Apply("types",
          FnOut("types", queryHasCorrectTypes(fnIn.query, fnIn.fields), <<>>))

ApplyRequired ==
    Apply("required",
          FnOut("required",
                queryHasRequiredFields(fnIn.query, fnIn.fields, FALSE), <<>>))

ApplyAccess ==
    Apply("access",
          FnOut("access",
                IF checkAccess(fnIn.access, fnIn.user, fnIn.document)
                THEN "true" ELSE "false", <<>>))

\* setCollection(name, description) for a description named Tasks, with the
\* one access string under every access type
ApplySetCollection ==
    LET desc == Description("Tasks", fnIn.fields,
                    Access(fnIn.access, fnIn.access, fnIn.access, fnIn.access,
                           fnIn.access))
        r == setCollectionCall(collections, fnIn.query.s, desc)
    IN  /\ fnIn.fn = "setCollection"
        /\ fnOut = FnIdle
        /\ fnOut' = FnOut("setCollection", IF r.thrown THEN "throw" ELSE "ok", <<>>)
        /\ collections' = r.regs
        /\ UNCHANGED <<db, now, req, res, origin, steps, fnIn, pending>>

ApplySetUserCollection ==
    LET desc == Description("", fnIn.fields,
                    Access(fnIn.access, fnIn.access, fnIn.access, fnIn.access,
                           fnIn.access))
        r == setUserCollectionCall(collections, desc)
    IN  /\ fnIn.fn = "setUserCollection"
        /\ fnOut = FnIdle
        /\ fnOut' = FnOut("setUserCollection", IF r.thrown THEN "throw" ELSE "ok", <<>>)
        /\ collections' = r.regs
        /\ UNCHANGED <<db, now, req, res, origin, steps, fnIn, pending>>

\* the insert endpoint of Tasks, registered with the fields of the input,
\* on a request of the user of the input, who is the one user of the store
ApplyInsert ==
    LET regs == [Users |-> Registry.Users,
                 Tasks |-> Description("Tasks", fnIn.fields, TasksDescription.access)]
        store == [Users |-> <<fnIn.user>>, Tasks |-> fnIn.coll]
        body == Body(Get(fnIn.user, "username"), Get(fnIn.user, "token"), Undef,
                     fnIn.query, Undef)
    IN  /\ fnIn.fn = "insert"
        /\ fnOut = FnIdle
        /\ \E cands \in Runs(InsertDrawsId("Tasks", body, store, regs, now), fnIn.coll) :
             LET out == InsertOutcome("Tasks", body, cands, store, <<>>, regs, now)
             IN  fnOut' = FnOut("insert",
                                IF out.res.sent = <<>> THEN "none"
                                ELSE ToString(out.res.sent[1]),
                                out.db.Tasks)
        /\ UNCHANGED <<collections, db, now, req, res, origin, steps, fnIn, pending>>

\* the edit endpoint of Tasks, likewise, with the filter {}
ApplyEdit ==
    LET regs == [Users |-> Registry.Users,
                 Tasks |-> Description("Tasks", fnIn.fields, TasksDescription.access)]
        store == [Users |-> <<fnIn.user>>, Tasks |-> fnIn.coll]
        body == Body(Get(fnIn.user, "username"), Get(fnIn.user, "token"), Obj(<<>>),
                     fnIn.query, Undef)
    IN  /\ fnIn.fn = "edit"
        /\ fnOut = FnIdle
        /\ \E cands \in Runs(EditDrawsId("Tasks", body, store, regs), fnIn.coll) :
             LET out == EditOutcome("Tasks", body, cands, store, <<>>, regs, now)
             IN  fnOut' = FnOut("edit",
                                IF out.res.sent = <<>> THEN "none"
                                ELSE ToString(out.res.sent[1]),
                                out.db.Tasks)
        /\ UNCHANGED <<collections, db, now, req, res, origin, steps, fnIn, pending>>

\* what a request to a collection endpoint gave: the status sent, and the
\* data of a read or else the documents of the collection afterwards
Answer(cn, op, out) ==
    FnOut("request",
          IF out.res.sent = <<>> THEN "none" ELSE ToString(out.res.sent[1]),
          IF op = "read" THEN out.res.data ELSE out.db[cn])

\* a request to a collection endpoint, with the store and the registry
\* of the input: the status sent, and the data of a read or else the
\* documents of the collection after the request
ApplyRequest ==
    LET cn == Get(fnIn.document, "collection").s
        op == Get(fnIn.document, "op").s
        regs == [Registry EXCEPT
                    ![cn] = Description(cn, fnIn.fields,
                                IF cn = "Tasks" THEN TasksDescription.access
                                ELSE Registry.Users.access)]
        store == [Users |-> IF fnIn.user = Null THEN <<>> ELSE <<fnIn.user>>,
                  Tasks |-> fnIn.coll]
        orig == [i \in 1..Len(fnIn.coll) |-> Get(fnIn.coll[i], "owner_id")]
        body == Body(Get(fnIn.query, "username"), Get(fnIn.query, "user_token"),
                     Get(fnIn.query, "query"), Get(fnIn.query, "document_data"),
                     Undef)
        draws == CASE op = "insert" -> InsertDrawsId(cn, body, store, regs, now)
                   [] op = "edit" -> EditDrawsId(cn, body, store, regs)
                   [] OTHER -> FALSE
    IN  /\ fnIn.fn = "request"
        /\ fnOut = FnIdle
        /\ \E cands \in Runs(draws, store[cn]) :
             fnOut' = Answer(cn, op,
                             CASE op = "read" ->
                                    QueryOutcome(cn, body, store, orig, regs, now)
                               [] op = "edit" ->
                                    EditOutcome(cn, body, cands, store, orig, regs, now)
                               [] op = "delete" ->
                                    DeleteOutcome(cn, body, store, orig, regs, now)
                               [] op = "insert" ->
                                    InsertOutcome(cn, body, cands, store, orig, regs,
                                                  now)
                               [] op = "info" ->
                                    InfoOutcome(cn, body, store, orig, regs, now))
        /\ UNCHANGED <<collections, db, now, req, res, origin, steps, fnIn, pending>>

FnNext ==
    \/ ApplyRequest
    \/ ApplyInsert
    \/ ApplyEdit
    \/ ApplySetCollection
    \/ ApplySetUserCollection
    \/ ApplyUnique
    \/ ApplyReadonly
    \/ ApplyTypes
    \/ ApplyRequired
    \/ ApplyAccess

SpecFn == FnInit /\ [][FnNext]_vars

(***************************************************************************)
(* The state machine: one action per endpoint.  req and res hold the       *)
(* request in hand and what it did; Finish drops them when the request is  *)
(* over.  steps counts the requests that changed the store.  Requests run  *)
(* one after the other here, each begun after the writes of the one before *)
(* it have reached the store; pending stays empty.                         *)
(***************************************************************************)
Init ==
    /\ collections = Registry
    /\ db = [Users |-> <<>>, Tasks |-> <<>>]
    /\ now = Clock(0)
    /\ req = NoRequest
    /\ res = Idle
    /\ origin = <<>>
    /\ steps = 0
    /\ fnIn = FnNone
    /\ fnOut = FnIdle
    /\ pending = <<>>

Commit(r, out) ==
    /\ out.db # db => steps < MaxSteps
    /\ req' = r
    /\ db' = out.db
    /\ origin' = out.origin
    /\ res' = out.res
    /\ steps' = IF out.db # db THEN steps + 1 ELSE steps
    /\ UNCHANGED <<collections, now, fnIn, fnOut, pending>>

Query ==
    /\ req = NoRequest
    /\ \E cn \in CollectionNames, cr \in Credentials, q \in Filters :
        LET body == Body(cr[1], cr[2], q, Undef, Undef) IN
        Commit(Request("read", cn, body),
               QueryOutcome(cn, body, db, origin, collections, now))

Edit ==
    /\ req = NoRequest
    /\ \E cn \in CollectionNames, cr \in Credentials, q \in Filters :
      \E d \in Payloads(cn) :
        LET body == Body(cr[1], cr[2], q, d, Undef) IN
        \E cands \in Runs(EditDrawsId(cn, body, db, collections), db[cn]) :
            Commit(Request("edit", cn, body),
                   EditOutcome(cn, body, cands, db, origin, collections, now))

Delete ==
    /\ req = NoRequest
    /\ \E cn \in CollectionNames, cr \in Credentials, q \in Filters :
        LET body == Body(cr[1], cr[2], q, Undef, Undef) IN
        Commit(Request("delete", cn, body),
               DeleteOutcome(cn, body, db, origin, collections, now))

Insert ==
    /\ req = NoRequest
    /\ \E cn \in CollectionNames, cr \in Credentials :
      \E d \in Payloads(cn) :
        LET body == Body(cr[1], cr[2], Undef, d, Undef) IN
        \E cands \in Runs(InsertDrawsId(cn, body, db, collections, now), db[cn]) :
            LET out == InsertOutcome(cn, body, cands, db, origin, collections, now)
            IN  /\ Len(out.db[cn]) <= MaxDocs
                /\ Commit(Request("insert", cn, body), out)

Info ==
    /\ req = NoRequest
    /\ \E cn \in CollectionNames, cr \in Credentials :
        LET body == Body(cr[1], cr[2], Undef, Undef, Undef) IN
        Commit(Request("info", cn, body),
               InfoOutcome(cn, body, db, origin, collections, now))

Login ==
    /\ req = NoRequest
    /\ \E u \in Usernames, pw \in {"pw", "bad"}, token \in TokenPool :
        LET body == Body(Str(u), Undef, Undef, Undef, Str(pw)) IN
        Commit(Request("login", "Users", body),
               LoginOutcome(body, token, db, origin, now))

Logout ==
    /\ req = NoRequest
    /\ \E cr \in Credentials :
        LET body == Body(cr[1], cr[2], Undef, Undef, Undef) IN
        Commit(Request("logout", "Users", body),
               LogoutOutcome(body, db, origin, now))

VerifyToken ==
    /\ req = NoRequest
    /\ \E cr \in Credentials :
        LET body == Body(cr[1], cr[2], Undef, Undef, Undef) IN
        Commit(Request("verifyToken", "Users", body),
               VerifyOutcome(body, db, origin))

\* the request is over
Finish ==
    /\ req # NoRequest
    /\ req' = NoRequest
    /\ res' = Idle
    /\ UNCHANGED <<collections, db, now, origin, steps, fnIn, fnOut, pending>>

\* time passes between requests
Tick ==
    /\ req = NoRequest
    /\ now < Clock(MaxTicks)
    /\ now' = now + TickMinutes
    /\ UNCHANGED <<collections, db, req, res, origin, steps, fnIn, fnOut, pending>>

Next ==
    \/ Query
    \/ Edit
    \/ Delete
    \/ Insert
    \/ Info
    \/ Login
    \/ Logout
    \/ VerifyToken
    \/ Finish
    \/ Tick

Spec == Init /\ [][Next]_vars

(***************************************************************************)
(* The write endpoints with the store calls as they are issued.  The edit  *)
(* endpoint calls collection.updateOne (line 361), the delete endpoint     *)
(* collection.deleteOne (line 387) and the insert endpoint                 *)
(* collection.insertOne (line 437) without awaiting the promise, and then  *)
(* sends the result: the write is in flight when the handler ends, and     *)
(* reaches the store at any later moment, in any order.  pending holds the *)
(* writes in flight.                                                       *)
(***************************************************************************)
MaxPending == 2

\* #collections with Tasks registered with the stamp field
AsyncRegistry ==
    [Registry EXCEPT !.Tasks = Description("Tasks", HookFields, TasksDescription.access)]

AsyncPayloads == {Obj(<<Ent("name", Str("t"))>>), Obj(<<Ent("coolness", Num(1))>>)}

AsyncFilters == {Obj(<<>>), Obj(<<Ent("id", Str("i1"))>>)}

\* the body of a request of the logged-in user of the store
AsyncBody(q, d) ==
    Body(Get(db.Users[1], "username"), Get(db.Users[1], "token"), q, d, Undef)

\* the write calls of a handler, each with the $set it carries
Issued(out, set) ==
    LET w == SelectSeq(out.res.calls, LAMBDA c : c.why = "write")
    IN  [i \in 1..Len(w) |-> [call |-> w[i], set |-> set]]

\* the handler ends: its result is sent and its writes are in flight
Sent(r, out, writes) ==
    /\ Len(pending) + Len(writes) <= MaxPending
    /\ req' = r
    /\ res' = out.res
    /\ pending' = pending \o writes
    /\ UNCHANGED <<collections, db, now, origin, steps, fnIn, fnOut>>

AsyncInit ==
    /\ collections = AsyncRegistry
    /\ db \in {[Users |-> <<EndUser>>, Tasks |-> c] : c \in EndStores}
    /\ now = Clock(0)
    /\ req = NoRequest
    /\ res = Idle
    /\ origin = <<>>
    /\ steps = 0
    /\ fnIn = FnNone
    /\ fnOut = FnIdle
    /\ pending = <<>>

InsertAsync ==
    /\ req = NoRequest
    /\ \E d \in AsyncPayloads :
          LET body == AsyncBody(Undef, d) IN
          \E cands \in Runs(InsertDrawsId("Tasks", body, db, collections, now), db.Tasks) :
              LET out == InsertOutcome("Tasks", body, cands, db, origin, collections, now)
              IN  /\ Len(db.Tasks) + Len(pending) < MaxDocs
                  /\ Sent(Request("insert", "Tasks", body), out, Issued(out, Null))

\* the insert endpoint of Users, on a request without credentials that
\* registers bob; at most MaxDocs such documents are stored or in flight
InsertUserAsync ==
    /\ req = NoRequest
    /\ LET body == Body(Undef, Undef, Undef,
                        Obj(<<Ent("username", Str("bob")),
                              Ent("password_hash", Str("pw"))>>), Undef)
           inFlight == SelectSeq(pending, LAMBDA w : w.call.coll = "Users")
       IN  \E cands \in Runs(InsertDrawsId("Users", body, db, collections, now),
                             db.Users) :
              LET out == InsertOutcome("Users", body, cands, db, origin, collections,
                                       now)
              IN  /\ Len(db.Users) - 1 + Len(inFlight) < MaxDocs
                  /\ Sent(Request("insert", "Users", body), out, Issued(out, Null))

EditAsync ==
    /\ req = NoRequest
    /\ \E d \in AsyncPayloads, q \in AsyncFilters :
          LET body == AsyncBody(q, d) IN
          \E cands \in Runs(EditDrawsId("Tasks", body, db, collections), db.Tasks) :
              LET out == EditOutcome("Tasks", body, cands, db, origin, collections, now)
                  set == ApplyHooks(prepareInsertData(d, db.Tasks, cands).data,
                                    collections.Tasks.fields, "preEdit",
                                    LocalUser(body, db), 1)
              IN  Sent(Request("edit", "Tasks", body), out, Issued(out, set))

DeleteAsync ==
    /\ req = NoRequest
    /\ \E q \in AsyncFilters :
          LET body == AsyncBody(q, Undef)
              out == DeleteOutcome("Tasks", body, db, origin, collections, now)
          IN  Sent(Request("delete", "Tasks", body), out, Issued(out, Null))

QueryAsync ==
    /\ req = NoRequest
    /\ \E q \in AsyncFilters :
          LET body == AsyncBody(q, Undef)
              out == QueryOutcome("Tasks", body, db, origin, collections, now)
          IN  Sent(Request("read", "Tasks", body), out, <<>>)

\* one write in flight reaches the store
Land ==
    \E i \in 1..Len(pending) :
        LET c == pending[i].call IN
        /\ db' = [db EXCEPT ![c.coll] =
                     CASE c.op = "insertOne" -> InsertOne(@, c.filter)
                       [] c.op = "updateOne" -> UpdateOne(@, c.filter, pending[i].set)
                       [] OTHER -> DeleteOne(@, c.filter)]
        /\ pending' = RemoveAt(pending, i)
        /\ UNCHANGED <<collections, now, req, res, origin, steps, fnIn, fnOut>>

AsyncNext ==
    \/ InsertAsync
    \/ InsertUserAsync
    \/ EditAsync
    \/ DeleteAsync
    \/ QueryAsync
    \/ Land
    \/ Finish

SpecAsync == AsyncInit /\ [][AsyncNext]_vars

(***************************************************************************)
(* The vocabulary of the properties, stated on the store and the request   *)
(* and not through the handlers.                                           *)
(***************************************************************************)

\* the status the client receives: the first one sent, 0 when none is
Result(r) == IF r.sent = <<>> THEN 0 ELSE r.sent[1]

IsCaller(doc, body) ==
    /\ MatchVal(Get(doc, "username"), body.username)
    /\ MatchVal(Get(doc, "token"), body.user_token)

Resolved(store, body) ==
    \E i \in 1..Len(store.Users) : IsCaller(store.Users[i], body)

Caller(store, body) ==
    store.Users[CHOOSE i \in 1..Len(store.Users) :
                    /\ IsCaller(store.Users[i], body)
                    /\ \A h \in 1..(i - 1) : ~IsCaller(store.Users[h], body)]

Expired(store, body, t) ==
    /\ Resolved(store, body)
    /\ \E w \in TimesWritten :
          /\ Get(Caller(store, body), "token_disallow") = Str(Format(w))
          /\ w < t

\* the access rule of the two collections for read, edit and delete: the
\* document's owner field equals the caller's id
OwnerField(cn) == IF cn = "Tasks" THEN "owner_id" ELSE "id"

Owns(cn, user, doc) ==
    LET a == Get(doc, OwnerField(cn))
        b == Get(user, "id")
    IN  \/ a.k = "string" /\ b.k = "string" /\ a.s = b.s
        \/ IsNullish(a) /\ IsNullish(b)

IsPrefix(a, b) == Len(a) <= Len(b) /\ a = SubSeq(b, 1, Len(a))

\* C1: for read, edit and delete by a resolved, non-expired caller with a
\* filter, the documents #handleRequest returns are exactly the documents of
\* the collection that match the filter and that the access rule grants to
\* the caller, in store order.
C1_AuthorizedSetExact ==
    [][ LET q == req'.body.query
            cn == req'.coll
            body == req'.body
        IN  ( /\ req'.op \in {"read", "edit", "delete"}
              /\ res'.auth.kind # "none"
              /\ Resolved(db, body)
              /\ ~Expired(db, body, now)
              /\ q # Undef )
            => /\ res'.auth.kind = "docs"
               /\ res'.auth.docs =
                    SelectSeq(db[cn], LAMBDA d :
                        Matches(d, q) /\ Owns(cn, Caller(db, body), d)) ]_vars

C1_Witness ==
    /\ req.op = "read"
    /\ req.coll = "Tasks"
    /\ req.body.query = Obj(<<>>)
    /\ res.auth.kind = "docs"
    /\ Len(res.auth.docs) = 1
    /\ Len(db.Tasks) = 2

\* C2: a request whose credentials resolve to no Users document is denied
\* (status 403, store unchanged) on every collection and operation, except
\* info and insert on Users.
C2_UnresolvedDenied ==
    [][ ( /\ req'.op \in CollectionOps
          /\ ~Resolved(db, req'.body)
          /\ ~(req'.coll = "Users" /\ req'.op \in {"info", "insert"}) )
        => (Result(res') = 403 /\ db' = db) ]_vars

\* C3: a request of a resolved caller whose token_disallow is before the
\* current time ends with status 403, for every operation and payload.
C3_ExpiredDenied ==
    [][ (req'.op \in CollectionOps /\ Expired(db, req'.body, now))
        => Result(res') = 403 ]_vars

\* C4: a request of a caller with an expired session that ends denied has
\* issued no lookup on the target collection other than the resolution of
\* the caller: neither a uniqueness lookup, nor an id probe, nor a fetch.
C4_ExpiredNoLookup ==
    [][ ( /\ req'.op \in CollectionOps
          /\ Expired(db, req'.body, now)
          /\ Result(res') = 403 )
        => \A i \in 1..Len(res'.calls) :
              res'.calls[i].why \in {"unique", "id", "fetch", "write"}
                  => res'.calls[i].coll # req'.coll ]_vars

\* a payload one of the checks of the endpoint rejects
EditFails(cn, data, store, regs) ==
    \/ data.k = "undefined"
    \/ queryFulfillsUniqueFields(data, regs[cn].fields, store[cn], FALSE).res = "false"
    \/ queryHasCorrectTypes(data, regs[cn].fields) = "false"
    \/ queryContainsReadonlyFields(data, regs[cn].fields, FALSE) = "true"

InsertFails(cn, data, regs) ==
    \/ data.k = "undefined"
    \/ queryHasRequiredFields(data, regs[cn].fields, FALSE) = "false"
    \/ queryHasCorrectTypes(data, regs[cn].fields) = "false"
    \/ queryContainsReadonlyFields(data, regs[cn].fields, FALSE) = "true"

RECURSIVE TouchesReadonly(_, _, _)
TouchesReadonly(query, fields, override) ==
    \E i \in 1..Len(Keys(query)) :
        LET field == Keys(query)[i] IN
        /\ HasField(fields, field)
        /\ \/ Desc(fields, field).readonly
           \/ override
           \/ /\ Desc(fields, field).valueType = "object"
              /\ TouchesReadonly(Get(query, field), Desc(fields, field).sub,
                                 override \/ Desc(fields, field).readonly)

\* C6: the readonly check returns true for every payload that contains a
\* readonly field or a field under a readonly container, at any position.
C6_ReadonlyDetected ==
    (fnOut.fn = "readonly" /\ TouchesReadonly(fnIn.query, fnIn.fields, FALSE))
        => fnOut.out = "true"

\* a payload field that is unique, by itself or by a unique ancestor, and
\* whose value a stored document holds at the same place
RECURSIVE UniqueConflict(_, _, _, _)
UniqueConflict(query, fields, holders, override) ==
    \E i \in 1..Len(Keys(query)) :
        LET field == Keys(query)[i]
            d == Desc(fields, field)
        IN
        /\ HasField(fields, field)
        /\ IF d.valueType = "object"
           THEN UniqueConflict(Get(query, field), d.sub,
                               [h \in 1..Len(holders) |-> Get(holders[h], field)],
                               override \/ d.unique)
           ELSE /\ d.unique \/ override
                /\ \E h \in 1..Len(holders) :
                      /\ ~IsNullish(holders[h])
                      /\ MatchVal(Get(holders[h], field), Get(query, field))

\* C7: the uniqueness check returns true iff no unique field of the payload
\* has a value that already occurs in the collection.
C7_UniqueIffNoConflict ==
    fnOut.fn = "unique"
        => (fnOut.out = "true"
              <=> ~UniqueConflict(fnIn.query, fnIn.fields, fnIn.coll, FALSE))

\* C8: no two documents of a collection have the same id, and no two Users
\* documents the same username.
C8_IdsUnique ==
    /\ \A cn \in CollectionNames : \A i, j \in 1..Len(db[cn]) :
          i # j => Get(db[cn][i], "id") # Get(db[cn][j], "id")
    /\ \A i, j \in 1..Len(db.Users) :
          i # j => Get(db.Users[i], "username") # Get(db.Users[j], "username")

\* C9: every stored task's owner_id is the id of the caller that inserted it.
C9_OwnerIsInserter ==
    \A i \in 1..Len(db.Tasks) : Get(db.Tasks[i], "owner_id") = origin[i]

\* C10 as stated: @everyone-authenticated grants exactly the non-null users.
C10_AuthenticatedSentinel ==
    (fnOut.fn = "access" /\ fnIn.access = <<"@", "everyone-authenticated">>)
        => (fnOut.out = "true" <=> fnIn.user # Null)

\* C10 as amended: @everyone is true and @noone false for every user and
\* document; the sentinel for authenticated callers is @everyuser, true iff
\* the user is not null whatever the document; @everyone-authenticated, like
\* every other @ string, is false for every user and document.
C10_Sentinels ==
    fnOut.fn = "access"
        => /\ fnIn.access = <<"@", "everyone">> => fnOut.out = "true"
           /\ fnIn.access = <<"@", "noone">> => fnOut.out = "false"
           /\ fnIn.access = <<"@", "everyuser">>
                => (fnOut.out = "true" <=> fnIn.user # Null)
           /\ fnIn.access = <<"@", "everyone-authenticated">>
                => fnOut.out = "false"

C10_Witness ==
    /\ fnOut.fn = "access"
    /\ fnIn.access = <<"@", "everyone-authenticated">>
    /\ fnIn.user # Null
    /\ fnIn.document # Null
    /\ fnOut.out = "false"

\* a == b as the language defines it on the values of the model: two absent
\* values are equal, two strings or two numbers are equal when they are the
\* same, and a number equals the string that is its text
SameLoosely(a, b) ==
    \/ IsNullish(a) /\ IsNullish(b)
    \/ a.k = "string" /\ b.k = "string" /\ a.s = b.s
    \/ a.k = "number" /\ b.k = "number" /\ a.n = b.n
    \/ a.k = "number" /\ b.k = "string" /\ b.s = ToString(a.n)
    \/ a.k = "string" /\ b.k = "number" /\ a.s = ToString(b.n)

Comparisons == {<<"$", "owner_id", "=", "&", "id">>, <<"&", "id", "=", "$", "owner_id">>}

\* C11: for a comparison A=B, #checkAccess returns the loose equality of the
\* two resolved values, a $ side resolved in the document and a & side in
\* the user; it returns false when the $ side meets a null document or the
\* & side a null user; a number and the text of the same number are equal.
C11_ComparisonLooseEquality ==
    (fnOut.fn = "access" /\ fnIn.access \in Comparisons)
        => (fnOut.out = "true"
              <=> /\ fnIn.document # Null
                  /\ fnIn.user # Null
                  /\ SameLoosely(Get(fnIn.document, "owner_id"),
                                 Get(fnIn.user, "id")))

C11_Witness ==
    /\ fnOut.fn = "access"
    /\ fnIn.access = <<"$", "owner_id", "=", "&", "id">>
    /\ fnIn.document = Obj(<<Ent("owner_id", Num(1))>>)
    /\ fnIn.user = Obj(<<Ent("id", Str("1"))>>)
    /\ fnOut.out = "true"

\* what a value must be to fit a descriptor: a scalar of the declared kind,
\* a member of the union, an object all of whose fields fit their
\* descriptors; for the array form, a sequence all of whose elements fit
\* the single form
RECURSIVE FitsSingle(_, _), FitsFields(_, _)
FitsSingle(v, d) ==
    CASE d.valueType \in {"string", "number"} -> v.k = d.valueType
      [] d.valueType = "union" ->
           v.k = "string" /\ \E u \in 1..Len(d.unionTypes) : d.unionTypes[u] = v.s
      [] OTHER -> v.k = "object" /\ FitsFields(v, d.sub)

FitsFields(query, fields) ==
    \A i \in 1..Len(query.o) :
        LET name == query.o[i].name
            v == query.o[i].val
        IN  /\ HasField(fields, name)
            /\ IF Desc(fields, name).valueForm = "single"
               THEN FitsSingle(v, Desc(fields, name))
               ELSE /\ v.k = "array"
                    /\ \A e \in 1..Len(v.o) : FitsSingle(v.o[e].val, Desc(fields, name))

\* the payload names only fields taken from the given ones
OnlyFields(query, names) == \A i \in 1..Len(query.o) : query.o[i].name \in names

\* C12: #queryHasCorrectTypes returns false when a leaf of the payload, at
\* any depth, is not of the declared scalar kind, and true for a payload
\* (nested objects included) all of whose leaves are of the declared kind.
C12_LeafMismatchRejected ==
    (fnOut.fn = "types" /\ OnlyFields(fnIn.query, {"title", "count", "meta"}))
        => IF FitsFields(fnIn.query, fnIn.fields)
           THEN fnOut.out = "true"
           ELSE fnOut.out = "false"

\* every array-form field of the payload holds a sequence
ArraysAreSequences(query, fields) ==
    \A i \in 1..Len(query.o) :
        (HasField(fields, query.o[i].name)
           /\ Desc(fields, query.o[i].name).valueForm = "array")
        => query.o[i].val.k = "array"

\* C19: for union fields, #queryHasCorrectTypes accepts a single-form value
\* iff it equals a member of the union, and an array iff every element
\* equals a member of the union.
C19_UnionMembership ==
    ( /\ fnOut.fn = "types"
      /\ OnlyFields(fnIn.query, {"kind", "kinds"})
      /\ ArraysAreSequences(fnIn.query, fnIn.fields) )
        => IF FitsFields(fnIn.query, fnIn.fields)
           THEN fnOut.out = "true"
           ELSE fnOut.out = "false"

C19_Witness ==
    /\ fnOut.fn = "types"
    /\ fnIn.query = Obj(<<Ent("kind", Str("a")),
                          Ent("kinds", Arr(<<Str("a"), Str("c")>>))>>)
    /\ fnOut.out = "false"

\* C20: for an array-form field (scalar, union or object), #queryHasCorrectTypes
\* accepts a value iff it is a sequence all of whose elements fit the single
\* form of the field.
C20_ArrayElementsValidated ==
    (fnOut.fn = "types" /\ OnlyFields(fnIn.query, {"kinds", "counts", "items"}))
        => IF FitsFields(fnIn.query, fnIn.fields)
           THEN fnOut.out = "true"
           ELSE fnOut.out = "false"

\* a schema field that is required, by itself or by a required ancestor, and
\* that the payload does not have
RECURSIVE LacksRequired(_, _, _)
LacksRequired(query, fields, override) ==
    \E i \in 1..Len(fields) :
        LET name == fields[i].name
            d == fields[i].d
        IN  IF d.valueType = "object" /\ HasKey(query, name)
            THEN LacksRequired(Get(query, name), d.sub, d.required \/ override)
            ELSE (d.required \/ override) /\ ~HasKey(query, name)

\* C13: #queryHasRequiredFields returns false iff a required schema field is
\* absent from the payload, whatever its place in the schema, and true
\* otherwise; it does not raise when a required nested object is absent.
C13_RequiredIffPresent ==
    fnOut.fn = "required"
        => IF LacksRequired(fnIn.query, fnIn.fields, FALSE)
           THEN fnOut.out = "false"
           ELSE fnOut.out = "true"

\* C14: when a nested object field is unique and the payload gives, under
\* it, a child the value a stored document has for the same child under
\* the same parent, #queryFulfillsUniqueFields returns false, even though
\* the child is not unique by itself.
C14_UniqueParentCoversChildren ==
    ( /\ fnOut.fn = "unique"
      /\ fnIn.fields = ParentFields
      /\ UniqueConflict(fnIn.query, fnIn.fields, fnIn.coll, FALSE) )
        => fnOut.out = "false"

\* the lookups of the id generator among the store calls of a request
IdProbes(r) == SelectSeq(r.calls, LAMBDA c : c.why = "id")

\* the number of candidates of the stream, from the first on, that a
\* document of the collection already has as its id
Collisions(coll) ==
    CHOOSE n \in 0..Len(IdStream) :
        /\ \A i \in 1..n : Count(coll, IdFilter(IdStream[i])) # 0
        /\ n < Len(IdStream) => Count(coll, IdFilter(IdStream[n + 1])) = 0

\* C15: when the store reports a collision for the first N candidates and
\* none for the next, #prepareInsertData probes exactly these N + 1
\* candidates, in order, and the id written is the (N + 1)-th candidate,
\* which no document of the collection had.
C15_FirstFreeCandidate ==
    [][ (req'.op \in {"insert", "edit"} /\ IdProbes(res') # <<>>)
        => LET coll == db[req'.coll]
               N == Collisions(coll)
               probes == IdProbes(res')
           IN  /\ Len(probes) = N + 1
               /\ \A i \in 1..(N + 1) : probes[i].filter = IdFilter(IdStream[i])
               /\ Count(coll, probes[N + 1].filter) = 0
               /\ (req'.op = "insert" /\ Result(res') = 200)
                    => /\ Len(db'[req'.coll]) = Len(coll) + 1
                       /\ Get(db'[req'.coll][Len(coll) + 1], "id") = Str(IdStream[N + 1])
               /\ (req'.op = "edit" /\ Result(res') = 200)
                    => \A j \in 1..Len(res'.auth.docs) :
                          \E h \in 1..Len(db'[req'.coll]) :
                              Get(db'[req'.coll][h], "id") = Str(IdStream[N + 1]) ]_vars

\* an insert whose first candidate was taken
C15_Witness ==
    /\ req.op = "insert"
    /\ Result(res) = 200
    /\ Len(IdProbes(res)) = 2
    /\ Get(db[req.coll][Len(db[req.coll])], "id") = Str(IdStream[2])

\* the document is the caller's own Users document
IsOwn(store, body, doc) ==
    Resolved(store, body) /\ Get(doc, "id") = Get(Caller(store, body), "id")

\* C16: a read, edit or delete on Users returns and changes only the Users
\* document whose id is the caller's id: the documents read and the
\* documents authorized are the caller's own, and the documents of the
\* other users are the same after the request as before.
C16_UsersSelfOnly ==
    [][ (req'.coll = "Users" /\ req'.op \in {"read", "edit", "delete"})
        => LET body == req'.body IN
           /\ \A i \in 1..Len(res'.data) : IsOwn(db, body, res'.data[i])
           /\ \A i \in 1..Len(res'.auth.docs) : IsOwn(db, body, res'.auth.docs[i])
           /\ SelectSeq(db'.Users, LAMBDA d : ~IsOwn(db, body, d))
                = SelectSeq(db.Users, LAMBDA d : ~IsOwn(db, body, d)) ]_vars

C16_Witness ==
    /\ req.coll = "Users"
    /\ req.op = "read"
    /\ req.body.query = Obj(<<>>)
    /\ Len(db.Users) = 2
    /\ Len(res.data) = 1
    /\ Get(res.data[1], "username") = req.body.username

\* the caller has access to no document that matches its request
NoAccess(store, cn, body, t) ==
    \/ ~Resolved(store, body)
    \/ Expired(store, body, t)
    \/ /\ body.query # Undef
       /\ \A i \in 1..Len(store[cn]) :
             ~(Matches(store[cn][i], body.query)
                 /\ Owns(cn, Caller(store, body), store[cn][i]))

\* the store without the documents of the collection that the caller cannot
\* access
WithoutOthers(store, cn, body) ==
    IF Resolved(store, body)
    THEN [store EXCEPT ![cn] = SelectSeq(@, LAMBDA d : Owns(cn, Caller(store, body), d))]
    ELSE [store EXCEPT ![cn] = <<>>]

\* the status the same request gets on another store
StatusOn(store, r, t) ==
    Result(CASE r.op = "read" ->
                  QueryOutcome(r.coll, r.body, store, <<>>, collections, t).res
             [] r.op = "edit" ->
                  EditOutcome(r.coll, r.body, IdStream, store, <<>>, collections, t).res
             [] OTHER ->
                  DeleteOutcome(r.coll, r.body, store, <<>>, collections, t).res)

\* C17: for a caller that has access to no document matching its request,
\* the result of a read, edit or delete is the same on two stores that
\* differ only in documents the caller cannot access: the status is the one
\* the request gets when these documents are not there.
C17_DeniedLikeNotFound ==
    [][ (req'.op \in {"read", "edit", "delete"}
           /\ NoAccess(db, req'.coll, req'.body, now))
        => Result(res') = StatusOn(WithoutOthers(db, req'.coll, req'.body), req', now) ]_vars

\* the documents of the collection that match the filter of the request and
\* that the access rule grants to the caller
Granted(store, cn, body) ==
    SelectSeq(store[cn], LAMBDA d :
        Matches(d, body.query) /\ Owns(cn, Caller(store, body), d))

\* C18: for a read, edit or delete of a resolved caller that reaches the
\* access decision with a filter, an empty authorized set is answered with
\* the one forbidden response and nothing is read or written, whether the
\* filter matched no document or only documents the rule rejects.
C18_EmptySetForbidden ==
    [][ ( /\ req'.op \in {"read", "edit", "delete"}
          /\ res'.auth.kind = "docs"
          /\ Resolved(db, req'.body)
          /\ Granted(db, req'.coll, req'.body) = <<>> )
        => /\ res'.sent = <<403>>
           /\ res'.data = <<>>
           /\ db' = db ]_vars

\* a read whose filter matches documents, none of which the rule grants
C18_Witness ==
    /\ req.op = "read"
    /\ req.coll = "Tasks"
    /\ res.auth.kind = "docs"
    /\ Find(db.Tasks, req.body.query) # <<>>
    /\ Granted(db, req.coll, req.body) = <<>>
    /\ res.sent = <<403>>

\* C21: on a payload that names a field the schema does not declare, at top
\* level or inside a nested object, #queryHasCorrectTypes returns a boolean
\* and raises nothing.
C21_UnknownFieldNotDereferenced ==
    (/\ fnOut.fn = "types"
     /\ OnlyFields(fnIn.query, {"title", "count", "meta", "ghost"})
     /\ \E i \in 1..Len(fnIn.query.o) :
            \/ fnIn.query.o[i].name = "ghost"
            \/ HasKey(fnIn.query.o[i].val, "ghost"))
        => fnOut.out \in {"true", "false"}

\* every union descriptor among the fields, at any depth, has literals
RECURSIVE HasLiterals(_)
HasLiterals(fields) ==
    \A i \in 1..Len(fields) :
        /\ fields[i].d.valueType = "union" => fields[i].d.unionTypes # <<>>
        /\ HasLiterals(fields[i].d.sub)

\* C22: a registration that is otherwise in order (name, no declared id)
\* succeeds and registers the collection when every union field, at any
\* depth, has literals, and raises when one has none.
C22_UnionNeedsLiterals ==
    (/\ fnOut.fn = "setCollection"
     /\ fnIn.query.s = "Tasks"
     /\ ~HasField(fnIn.fields, "id"))
        => IF HasLiterals(fnIn.fields)
           THEN /\ fnOut.out = "ok"
                /\ collections.Tasks.fields = Append(fnIn.fields, FEnt("id", IdField))
           ELSE fnOut.out = "throw"

\* C23: setCollection and setUserCollection raise on a description whose
\* fields declare id, and #collections is then what it was before the call.
C23_DeclaredIdRejected ==
    (fnOut.fn \in {"setCollection", "setUserCollection"} /\ HasField(fnIn.fields, "id"))
        => fnOut.out = "throw" /\ collections = Registry

C23_Witness ==
    /\ fnOut.fn = "setCollection"
    /\ fnIn.query.s = "Tasks"
    /\ fnIn.fields = <<FEnt("name", Scalar("string", TRUE, FALSE, FALSE, FALSE)),
                       FEnt("id", IdField)>>
    /\ fnIn.access = <<"@", "everyuser">>
    /\ fnOut.out = "throw"
    /\ collections.Tasks = setCollection(TasksDescription)

\* C24: every access string of a registered collection is a sentinel
\* (@everyone, @noone, @everyuser) or one comparison of two sides, each a
\* sigil "$" or "&" followed by a name.
C24_MalformedAccessRejected ==
    \A n \in DOMAIN collections :
        \A t \in {"read", "delete", "edit", "info", "insert"} :
            LET a == collections[n].access[t] IN
            \/ a \in {<<"@", "everyone">>, <<"@", "noone">>, <<"@", "everyuser">>}
            \/ /\ Len(a) = 5
               /\ a[1] \in {"$", "&"}
               /\ a[3] = "="
               /\ a[4] \in {"$", "&"}

C27_EveryRequestAnswered ==
    fnOut.fn \in {"insert", "edit"} => fnOut.out # "none"

\* C29: the document a successful insert adds has as id the candidate the
\* engine drew, a string of the generator that no document of the
\* collection had; the id of the payload plays no part in it.
C29_InsertedIdGenerated ==
    (fnOut.fn = "insert" /\ fnOut.out = "200")
        => LET id == Get(fnOut.finds[Len(fnOut.finds)], "id") IN
           /\ fnOut.finds = Append(fnIn.coll, fnOut.finds[Len(fnOut.finds)])
           /\ id \in {Str(c) : c \in IdPool}
           /\ \A d \in 1..Len(fnIn.coll) : Get(fnIn.coll[d], "id") # id
           /\ id = Str(IdStream[Len(fnIn.coll) + 1])

C29_Witness ==
    /\ fnOut.fn = "insert"
    /\ fnOut.out = "200"
    /\ fnIn.coll = <<EndDoc("i1")>>
    /\ Get(fnIn.query, "id") = Str("zz")
    /\ Get(fnOut.finds[2], "id") = Str("i2")

C30_IdentityNeedsLogin ==
    [][(req'.coll = "Tasks" /\ req'.op \in CollectionOps /\ Result(res') = 200)
          => /\ Resolved(db, req'.body)
             /\ Get(Caller(db, req'.body), "token") \in {Str(k) : k \in TokenPool}
             /\ req'.body.user_token = Get(Caller(db, req'.body), "token")
             /\ \E w \in TimesWritten :
                   /\ Get(Caller(db, req'.body), "token_disallow") = Str(Format(w))
                   /\ w >= now]_vars

\* C26: when an insert, edit or delete holds its success result, and when a
\* read has run, no write of an answered request is still in flight.
C26_WritesAwaited ==
    /\ (req.op \in {"insert", "edit", "delete"} /\ Result(res) = 200)
          => pending = <<>>
    /\ req.op = "read" => pending = <<>>

\* C32: a request sends at most one response: #handleRequest and the
\* endpoint handler never both send for the same request.
C32_OneResponse ==
    Len(res.sent) <= 1

\* C40: /verifyToken answers 200 for a username and a token only when a
\* collection request with the same pair resolves to a user whose session
\* has not expired.
C40_VerifyMeansAuthenticated ==
    [][(req'.op = "verifyToken" /\ Result(res') = 200)
          => /\ Resolved(db, req'.body)
             /\ ~Expired(db, req'.body, now)]_vars

\* the request presents a token other than the one stored for its user
StaleToken ==
    /\ fnIn.fn = "request"
    /\ fnIn.user # Null
    /\ Get(fnIn.user, "username") = Get(fnIn.query, "username")
    /\ Get(fnIn.user, "token") # Get(fnIn.query, "user_token")

C39_FailureLeavesStore ==
    [][(req'.op # "none" /\ Result(res') # 200)
          => /\ db' = db
             /\ \A i \in 1..Len(res'.calls) :
                   res'.calls[i].op \in {"find", "findOne"}]_vars

C39_Witness ==
    /\ req.op = "edit"
    /\ req.coll = "Tasks"
    /\ Result(res) = 403
    /\ Len(db.Tasks) = 2
    /\ res.auth.kind = "docs"

\* C33: an edit changes only documents for which the access expression
\* holds for the caller.
C33_OnlyAuthorizedTouched ==
    fnOut.fn = "edit"
        => \A i \in 1..Len(fnIn.coll) :
              fnOut.finds[i] # fnIn.coll[i]
                  => Owns("Tasks", fnIn.user, fnIn.coll[i])

\* the value holds a non-null value under a secret field of the schema, at
\* any depth
RECURSIVE Discloses(_, _)
Discloses(v, fields) ==
    \E i \in 1..Len(fields) :
        LET x == Get(v, fields[i].name) IN
        \/ fields[i].d.secret /\ ~IsNullish(x)
        \/ /\ fields[i].d.valueType = "object"
           /\ x.k = "object"
           /\ Discloses(x, fields[i].d.sub)

\* C35: in every document of a successful read response every secret field
\* is null, at top level and inside nested objects.
C35_SecretsNeverRead ==
    (/\ fnIn.fn = "request"
     /\ Get(fnIn.document, "op") = Str("read")
     /\ fnOut.out = "200")
        => \A i \in 1..Len(fnOut.finds) : ~Discloses(fnOut.finds[i], fnIn.fields)

\* C31: no insert into Users and no edit of Users persists a token or a
\* token_disallow of the client's choice: an inserted document has both
\* null, an edited document has both as they were.
C31_SessionFieldsNotWritable ==
    /\ (fnIn.fn = "request" /\ fnIn.document = Route("Users", "insert"))
        => \A i \in 1..Len(fnOut.finds) :
              \/ fnIn.user # Null /\ i = 1 /\ fnOut.finds[i] = fnIn.user
              \/ /\ Get(fnOut.finds[i], "token") = Null
                 /\ Get(fnOut.finds[i], "token_disallow") = Null
    /\ (fnIn.fn = "request" /\ fnIn.document = Route("Users", "edit"))
        => \A i \in 1..Len(fnOut.finds) :
              /\ Get(fnOut.finds[i], "token") = Get(fnIn.user, "token")
              /\ Get(fnOut.finds[i], "token_disallow")
                     = Get(fnIn.user, "token_disallow")

\* the side of a comparison has no value: it carries no sigil, or the
\* document or the user it names lacks the field
SideMissing(side, user, document) ==
    \/ Sigil(side) \notin {"$", "&"}
    \/ Sigil(side) = "$" /\ ~HasKey(document, SideName(side))
    \/ Sigil(side) = "&" /\ ~HasKey(user, SideName(side))

\* C36: a comparison access expression is false when a side has no value:
\* the document lacks the field of the $ side, the user lacks the field of
\* the & side, or the side carries no sigil.
C36_MissingSideDenies ==
    (/\ fnOut.fn = "access"
     /\ Sigil(fnIn.access) # "@"
     /\ \E i \in 1..Len(SplitEq(fnIn.access)) :
           SideMissing(SplitEq(fnIn.access)[i], fnIn.user, fnIn.document))
        => fnOut.out = "false"

\* C37: an insert that omits the optional fields of the collection, the
\* unique ones among them, and passes the required, type and readonly
\* checks succeeds, whatever earlier inserts that omitted them have stored.
C37_OmittedUniqueAccepted ==
    (/\ fnOut.fn = "insert"
     /\ fnIn.query = Obj(<<Ent("name", Str("t"))>>)
     /\ queryHasRequiredFields(fnIn.query, fnIn.fields, FALSE) = "true"
     /\ queryHasCorrectTypes(fnIn.query, fnIn.fields) = "true")
        => fnOut.out = "200"

\* C38: of the insert requests that carry the same username, whatever the
\* order in which their store calls take effect, at most one stores a
\* document: no two documents of Users have the same username.
C38_OneInsertPerUsername ==
    \A i, j \in 1..Len(db.Users) :
        Get(db.Users[i], "username") = Get(db.Users[j], "username") => i = j

====
